---- MODULE Spec2Model ----
(***************************************************************************)
(* Brand Studio service (venom_module_brand_studio/services/service.py).   *)
(*                                                                         *)
(* The model follows BrandStudioService: the strategy store, the channel   *)
(* accounts, the draft bundles with their content-addressed cache, the     *)
(* publish queue with its per-channel dispatch, the due-item sweep and the *)
(* audit log.  Every public method is one action (the reentrant lock makes *)
(* it atomic); process_scheduled_queue collects the due ids under the lock *)
(* and publishes them after releasing it, so it is two steps.              *)
(*                                                                         *)
(* Identifiers made with uuid4 are drawn fresh from counters.  Time is an  *)
(* integer clock; datetimes are clock values.  Text payloads (content,     *)
(* targets, display names, messages) are left out or kept as short tags.   *)
(* None and the empty string are both written "" where the code tests the  *)
(* value for truthiness.                                                   *)
(***************************************************************************)
EXTENDS Integers, Sequences, FiniteSets, TLC

\* ---------------------------------------------------------------- bounds
MaxTime == 1
MaxAuditStrategy == 3
MaxAuditQueue == 3
MaxAuditSweep == 4
MaxQueue == 2
MaxStrategies == 2
MaxDraftTime == 2
MaxAuditDraft == 3
MaxDrafts == 2
MaxNewAccounts == 2

\* ------------------------------------------------------ program constants
\* _draft_cache_ttl_seconds(): 86400 s by default, here in clock ticks.
DraftCacheTtl == 1

NoTime == 0 - 1

\* a scheduled_at without tzinfo (a naive datetime), which queue_draft
\* stores as it is given
NaiveTime == 0 - 2

\* scores are kept as integers, ScoreScale times the float of the code: the
\* weights 0.40, 0.25, 0.25, 0.20 over the divisors 6, 1440, 5 and 2 are then
\* whole numbers
ScoreScale == 28800
NoScore == 0 - 1
NoLimit == 0
\* the default strategy: cache TTL 1800 s (one unit of the clock in the
\* candidate specification), min_score 0.3, limit 30
DefaultCacheTtl == 1
DefaultMinScore == 8640
DefaultLimit == 30
\* datetime.fromtimestamp(0), long before the clock starts
Epoch == 0 - 1000
NoStrategy == 0 - 1
EmptyMap == [k \in {} |-> 0]

\* Three of the ten SUPPORTED_CHANNELS: "x" is the manual placeholder,
\* "github" and "devto" are connector-backed; "x" and "github" get a default
\* account at construction, "devto" gets none.
SUPPORTED_CHANNELS == {"x", "github", "devto"}

DefaultAccountChannels == {"x", "github"}

VARIABLES
    now,                \* _utcnow()
    strategies,         \* self._strategies: id -> StrategyConfig
    active_strategy_id, \* self._active_strategy_id
    accounts,           \* self._accounts: channel -> ordered accounts
    next_account,       \* ids handed out by uuid4 in create_channel_account
    publishers,         \* channels whose publisher object is not None
    llm_enabled,        \* self._llm_client.enabled
    candidates,         \* ids of self._candidates
    drafts,             \* self._drafts: draft id -> DraftBundle
    draft_cache,        \* self._draft_cache: key -> (draft_id, generated_at)
    queue,              \* self._queue: ordered item_id -> PublishQueueItem
    audit,              \* self._audit
    sweep,              \* the running process_scheduled_queue call
    ret,                \* outcome of the last public call
    last_refresh_at,    \* self._last_refresh_at
    cache_file,         \* the candidates cache file: <<>> or <<content>>
    state_file,         \* the runtime-state file: <<>> or <<content>>
    accounts_file,      \* the accounts file: <<>> or <<content>>
    campaigns,          \* self._campaigns: id -> BrandCampaign
    scans,              \* self._scans, self._scan_results and the request-id map
    scanning,           \* the monitoring_scan calls between their two locked phases
    generating,         \* the generate_draft calls past their cache lookup
    sweeping            \* process_scheduled_queue running on a second thread

vars == <<now, strategies, active_strategy_id, accounts,
          next_account, publishers, llm_enabled, candidates, drafts,
          draft_cache, queue, audit, sweep, ret, last_refresh_at, cache_file,
          state_file, accounts_file, campaigns, scans, scanning, generating,
          sweeping>>

\* ------------------------------------------------------------- helpers
Range(s) == {s[i] : i \in DOMAIN s}

Min(S) == CHOOSE x \in S : \A y \in S : x <= y

RECURSIVE SeqOfSet(_)
SeqOfSet(S) == IF S = {} THEN <<>> ELSE
    LET m == Min(S) IN <<m>> \o SeqOfSet(S \ {m})

RECURSIVE Flatten(_)
Flatten(ss) == IF ss = <<>> THEN <<>> ELSE Head(ss) \o Flatten(Tail(ss))

RemoveAt(s, i) == SubSeq(s, 1, i - 1) \o SubSeq(s, i + 1, Len(s))

\* outcome of a call: the value returned or the exception raised
Ret(op, id, err, status, success) ==
    [op |-> op, id |-> id, err |-> err, status |-> status, success |-> success,
     call |-> <<>>]

\* ------------------------------------------------------------ audit log
\* _add_audit: append one entry (and persist the runtime state)
AuditEntry(actor, action, status, ref, detail) ==
    [actor |-> actor, action |-> action, status |-> status, ref |-> ref,
     detail |-> detail]

\* (Faulty variant: the entry is put in front of the log.)
AddAuditInFront(log, actor, action, status, ref, detail) ==
    <<AuditEntry(actor, action, status, ref, detail)>> \o log

AddAudit(log, actor, action, status, ref, detail) ==
    Append(log, AuditEntry(actor, action, status, ref, detail))

\* ---------------------------------------------------------- state files
\* _persist_runtime_state: the payload it writes
RuntimeState ==
    [drafts |-> drafts, draft_cache |-> draft_cache, queue |-> queue,
     audit |-> audit, strategies |-> strategies,
     active_strategy_id |-> active_strategy_id]

\* the campaigns, the monitoring scans and the calls in flight of a service
\* that has none
NoScans == [scans |-> <<>>, results |-> <<>>, request_id_to_scan |-> <<>>]

OthersAtRest ==
    /\ campaigns = <<>>
    /\ scans = NoScans
    /\ scanning = <<>>
    /\ generating = <<>>
    /\ sweeping = [pc |-> "idle", due |-> <<>>, processed |-> 0, at |-> 0 - 1]

OthersUntouched == UNCHANGED <<campaigns, scans, scanning, generating, sweeping>>

FilesUntouched ==
    /\ UNCHANGED <<last_refresh_at, cache_file, state_file, accounts_file>>
    /\ OthersUntouched

\* The files as a handler leaves them.  A handler that raises has written
\* nothing; one that returns has called _persist_runtime_state (runtime),
\* _persist_accounts_state (accs) after its last change to the state they
\* save.
SavedOnSuccess(runtime, accs) ==
    /\ state_file' = IF runtime /\ ret'.err = "" THEN <<RuntimeState'>> ELSE state_file
    /\ accounts_file' = IF accs /\ ret'.err = "" THEN <<accounts'>> ELSE accounts_file
    /\ OthersUntouched
    /\ UNCHANGED <<last_refresh_at, cache_file>>

\* ------------------------------------------------------- strategy store
\* The store is an insertion-ordered dict, kept as a sequence of
\* StrategyConfig records.  Id 0 is "default"; ids 1.. are "strategy-<hex>"
\* in lexicographic order.
StrategyIds(ss) == {ss[i].id : i \in DOMAIN ss}

StrategyPos(ss, id) == CHOOSE i \in DOMAIN ss : ss[i].id = id

GetStrategy(ss, id) == ss[StrategyPos(ss, id)]

\* self._strategies[id] = config
PutStrategy(ss, config) ==
    IF config.id \in StrategyIds(ss)
    THEN [ss EXCEPT ![StrategyPos(ss, config.id)] = config]
    ELSE Append(ss, config)

NoDefaults == [c \in SUPPORTED_CHANNELS |-> ""]

\* a payload whose fields are all None
NoChange ==
    [discovery_mode |-> "", set_defaults |-> FALSE, default_accounts |-> NoDefaults,
     cache_ttl_seconds |-> NoTime, min_score |-> NoScore, limit |-> NoLimit,
     topic_keywords |-> <<>>]

\* _active_strategy: the id it resolves to (it repoints the active id to the
\* first strategy when the active id names none)
ActiveStrategyId(ss, active) ==
    IF active \in StrategyIds(ss) THEN active ELSE ss[1].id

ActiveStrategy(ss, active) == GetStrategy(ss, ActiveStrategyId(ss, active))

\* payload.model_dump(exclude_none=True) merged into a strategy: a field of
\* the payload that is None ("" here) keeps the strategy's value
MergeStrategy(base, payload) ==
    [base EXCEPT
        !.discovery_mode =
            IF payload.discovery_mode = "" THEN @ ELSE payload.discovery_mode,
        !.default_accounts =
            IF payload.set_defaults THEN payload.default_accounts ELSE @,
        !.cache_ttl_seconds =
            IF payload.cache_ttl_seconds = NoTime THEN @ ELSE payload.cache_ttl_seconds,
        !.min_score = IF payload.min_score = NoScore THEN @ ELSE payload.min_score,
        !.limit = IF payload.limit = NoLimit THEN @ ELSE payload.limit,
        !.topic_keywords =
            IF payload.topic_keywords = <<>> THEN @ ELSE payload.topic_keywords[1]]

\* delete_strategy, the active id after the deletion.  (Faulty variant: the
\* active id is left to name the deleted strategy.)
ActiveAfterDeleteKept(remaining, active, deleted) == active

\* (Faulty variant: the first remaining strategy in insertion order
\* becomes active.)
ActiveAfterDeleteFirst(remaining, active, deleted) ==
    IF active = deleted THEN remaining[1].id ELSE active

ActiveAfterDelete(remaining, active, deleted) ==
    IF active = deleted THEN Min(StrategyIds(remaining)) ELSE active

\* ------------------------------------------------------ channel accounts
\* self._accounts[channel] is an insertion-ordered dict, kept as a sequence
\* of ChannelAccount records.
AccountIds(accs) == {accs[i].account_id : i \in DOMAIN accs}

AccountPos(accs, id) == CHOOSE i \in DOMAIN accs : accs[i].account_id = id

GetAccount(accs, id) == accs[AccountPos(accs, id)]

NewAccount(id, enabled, is_default, role, supports) ==
    [account_id |-> id, display_name |-> "Account " \o id,
     enabled |-> enabled, is_default |-> is_default,
     role |-> role, supports_account_id |-> supports,
     successful_publishes |-> 0, failed_publishes |-> 0,
     last_publish_status |-> ""]

DefaultAccountName(channel) == "default-" \o channel

\* f"{channel}-{uuid4().hex[:8]}"
AccountName(channel, n) == channel \o "-" \o ToString(n)

\* _mark_single_default
MarkSingleDefault(accs) ==
    IF accs = <<>> THEN accs ELSE
    LET default_pos == {i \in DOMAIN accs : accs[i].is_default /\ accs[i].enabled}
        chosen == IF default_pos # {} THEN Min(default_pos) ELSE 1
    IN [i \in DOMAIN accs |-> [accs[i] EXCEPT !.is_default = (i = chosen)]]

\* _default_account_for_channel: the account id, "" for None
\* (Faulty variant: without the second loop, over the enabled accounts.)
DefaultAccountMarkedOnly(accs) ==
    LET marked == {i \in DOMAIN accs : accs[i].is_default /\ accs[i].enabled}
    IN IF marked # {} THEN accs[Min(marked)].account_id ELSE ""

DefaultAccountForChannel(accs) ==
    LET marked == {i \in DOMAIN accs : accs[i].is_default /\ accs[i].enabled}
        enabled == {i \in DOMAIN accs : accs[i].enabled}
    IN IF marked # {} THEN accs[Min(marked)].account_id
       ELSE IF enabled # {} THEN accs[Min(enabled)].account_id
       ELSE ""

\* _record_account_publish_result: the channel's accounts after the call.
\* (Faulty variant: the bookkeeping is skipped on a failed outcome.)
RecordAccountPublishResultOnSuccess(accs, account_id, status) ==
    IF account_id = "" \/ account_id \notin AccountIds(accs) \/ status # "published"
    THEN accs
    ELSE [accs EXCEPT ![AccountPos(accs, account_id)] =
            [@ EXCEPT !.last_publish_status = "published",
                      !.successful_publishes = @ + 1]]

RecordAccountPublishResult(accs, account_id, status) ==
    IF account_id = "" \/ account_id \notin AccountIds(accs) THEN accs
    ELSE [accs EXCEPT ![AccountPos(accs, account_id)] =
            IF status = "published"
            THEN [@ EXCEPT !.last_publish_status = "published",
                           !.successful_publishes = @ + 1]
            ELSE [@ EXCEPT !.last_publish_status = "failed",
                           !.failed_publishes = @ + 1]]

\* ---------------------------------------------------------- draft bundles
NoVariant == [channel |-> "", language |-> "", account_id |-> ""]

\* (Faulty variant: the first variant is taken before a primary one.)
ChooseVariantFirstAvailable(bundle, target_channel, target_language, account_id) ==
    LET on_channel == SelectSeq(bundle.variants, LAMBDA v : v.channel = target_channel)
        lang_match == SelectSeq(on_channel, LAMBDA v : v.language = target_language)
        variants == IF target_language # "" /\ lang_match # <<>>
                    THEN lang_match ELSE on_channel
        account_match == SelectSeq(variants, LAMBDA v : v.account_id = account_id)
    IN IF variants = <<>> THEN NoVariant
       ELSE IF account_id # "" /\ account_match # <<>> THEN account_match[1]
       ELSE variants[1]

\* _choose_variant: the chosen DraftVariant, NoVariant for None
ChooseVariant(bundle, target_channel, target_language, account_id) ==
    LET on_channel == SelectSeq(bundle.variants, LAMBDA v : v.channel = target_channel)
        lang_match == SelectSeq(on_channel, LAMBDA v : v.language = target_language)
        variants == IF target_language # "" /\ lang_match # <<>>
                    THEN lang_match ELSE on_channel
        account_match == SelectSeq(variants, LAMBDA v : v.account_id = account_id)
        primary_match == SelectSeq(variants, LAMBDA v : v.account_id = "")
    IN IF variants = <<>> THEN NoVariant
       ELSE IF account_id # "" /\ account_match # <<>> THEN account_match[1]
       ELSE IF primary_match # <<>> THEN primary_match[1]
       ELSE variants[1]

\* ---------------------------------------------------------- publish queue
\* self._queue is an insertion-ordered dict; item ids are the positions.
NoAccountFound == "account_not_found"

\* _resolve_account_for_queue: the account id, "" for None, NoAccountFound
\* when it raises ChannelAccountNotFoundError.  (Faulty variant: an unknown
\* explicit id falls through to the defaults.)
ResolveAccountLenient(target_channel, account_id) ==
    IF target_channel \notin SUPPORTED_CHANNELS THEN ""
    ELSE LET accs == accounts[target_channel]
             strategy_default ==
                 ActiveStrategy(strategies, active_strategy_id).default_accounts[target_channel]
         IN IF account_id # "" /\ account_id \in AccountIds(accs) THEN account_id
            ELSE IF strategy_default # "" /\ strategy_default \in AccountIds(accs)
            THEN strategy_default
            ELSE DefaultAccountForChannel(accs)

ResolveAccountForQueue(target_channel, account_id) ==
    IF target_channel \notin SUPPORTED_CHANNELS THEN ""
    ELSE LET accs == accounts[target_channel]
             strategy_default ==
                 ActiveStrategy(strategies, active_strategy_id).default_accounts[target_channel]
         IN IF account_id # ""
            THEN IF account_id \in AccountIds(accs) THEN account_id ELSE NoAccountFound
            ELSE IF strategy_default # "" /\ strategy_default \in AccountIds(accs)
            THEN strategy_default
            ELSE DefaultAccountForChannel(accs)

UnchangedButQueue ==
    /\ UNCHANGED <<now, strategies, accounts, next_account, publishers, llm_enabled,
                   candidates, drafts, draft_cache, sweep>>
    /\ SavedOnSuccess(TRUE, FALSE)

\* queue_draft
QueueDraft(draft_id, target_channel, target_language, account_id, scheduled_at, publish_mode) ==
    LET Fail(err) ==
            /\ ret' = Ret("queue_draft", draft_id, err, "", FALSE)
            /\ UNCHANGED <<queue, audit, active_strategy_id>>
    IN
    /\ IF draft_id \notin DOMAIN drafts THEN Fail("draft_not_found")
       ELSE LET variant == ChooseVariant(drafts[draft_id], target_channel,
                                         target_language, account_id)
                selected == ResolveAccountForQueue(target_channel, account_id)
            IN IF variant = NoVariant THEN Fail("draft_variant_not_found")
               ELSE IF selected = NoAccountFound THEN Fail("account_not_found")
               ELSE /\ Len(queue) < MaxQueue
                    /\ Len(audit) < MaxAuditQueue
                    /\ active_strategy_id' =
                          IF account_id = ""
                          THEN ActiveStrategyId(strategies, active_strategy_id)
                          ELSE active_strategy_id
                    /\ queue' = Append(queue,
                          [item_id |-> Len(queue) + 1,
                           draft_id |-> draft_id,
                           target_channel |-> target_channel,
                           target_language |-> variant.language,
                           payload |-> variant.content,
                           account_id |-> selected,
                           account_display_name |->
                               IF selected = "" THEN ""
                               ELSE GetAccount(accounts[target_channel],
                                               selected).display_name,
                           status |-> "queued",
                           created_at |-> now,
                           updated_at |-> now,
                           scheduled_at |-> scheduled_at,
                           publish_mode |-> publish_mode])
                    /\ audit' = AddAudit(audit, "user", "queue.create", "queued",
                                         Len(queue) + 1, target_channel)
                    /\ ret' = Ret("queue_draft", Len(queue) + 1, "", "queued", TRUE)
    /\ UnchangedButQueue

\* the publisher object a channel's branch of publish_queue_item uses, ""
\* for a channel without one
PublisherSlot(channel) ==
    CASE channel \in {"github", "blog"} -> "github"
      [] channel \in {"devto", "reddit", "hashnode", "linkedin", "medium"} -> channel
      [] channel \in {"hf_blog", "hf_spaces"} -> "hf"
      [] OTHER -> ""

\* (Faulty variant: channel "x" has no branch of its own and falls through
\* to the last one.)
DispatchXNotImplemented(channel, connector_ok) ==
    IF PublisherSlot(channel) # ""
    THEN IF PublisherSlot(channel) \notin publishers
         THEN [status |-> "failed", audit_status |-> "failed",
               detail |-> "not_configured", connector_called |-> FALSE]
         ELSE IF connector_ok
         THEN [status |-> "published", audit_status |-> "published",
               detail |-> channel, connector_called |-> TRUE]
         ELSE [status |-> "failed", audit_status |-> "failed",
               detail |-> "exception", connector_called |-> TRUE]
    ELSE [status |-> "failed", audit_status |-> "failed",
          detail |-> "connector_not_implemented", connector_called |-> FALSE]

\* (Faulty variant: a channel whose publisher is missing is published
\* like "x".)
DispatchSilentSuccess(channel, connector_ok) ==
    IF PublisherSlot(channel) # ""
    THEN IF PublisherSlot(channel) \notin publishers
         THEN [status |-> "published", audit_status |-> "manual",
               detail |-> channel, connector_called |-> FALSE]
         ELSE IF connector_ok
         THEN [status |-> "published", audit_status |-> "published",
               detail |-> channel, connector_called |-> TRUE]
         ELSE [status |-> "failed", audit_status |-> "failed",
               detail |-> "exception", connector_called |-> TRUE]
    ELSE IF channel = "x"
    THEN [status |-> "published", audit_status |-> "manual",
          detail |-> "x", connector_called |-> FALSE]
    ELSE [status |-> "failed", audit_status |-> "failed",
          detail |-> "connector_not_implemented", connector_called |-> FALSE]

\* publish_queue_item past the gates: the outcome of the channel's branch.
\* connector_ok says whether publish_markdown returns (TRUE) or raises.
Dispatch(channel, connector_ok) ==
    IF PublisherSlot(channel) # ""
    THEN IF PublisherSlot(channel) \notin publishers
         THEN [status |-> "failed", audit_status |-> "failed",
               detail |-> "not_configured", connector_called |-> FALSE]
         ELSE IF connector_ok
         THEN [status |-> "published", audit_status |-> "published",
               detail |-> channel, connector_called |-> TRUE]
         ELSE [status |-> "failed", audit_status |-> "failed",
               detail |-> "exception", connector_called |-> TRUE]
    ELSE IF channel = "x"
    THEN [status |-> "published", audit_status |-> "manual",
          detail |-> "x", connector_called |-> FALSE]
    ELSE [status |-> "failed", audit_status |-> "failed",
          detail |-> "connector_not_implemented", connector_called |-> FALSE]

\* publish_queue_item, the gates: the error raised, "" when the call passes.
\* (Faulty variant: the already-published gate is missing.)
PublishGateNoConflict(item_id, confirm_publish) ==
    IF item_id \notin DOMAIN queue THEN "queue_item_not_found"
    ELSE IF ~confirm_publish THEN "confirm_publish_required"
    ELSE ""

\* (Faulty variant: the already-published gate comes before the
\* confirmation gate.)
PublishGateConflictFirst(item_id, confirm_publish) ==
    IF item_id \notin DOMAIN queue THEN "queue_item_not_found"
    ELSE IF queue[item_id].status = "published" THEN "queue_item_already_published"
    ELSE IF ~confirm_publish THEN "confirm_publish_required"
    ELSE ""

\* (Faulty variant: only a queued item passes the gates.)
PublishGateQueuedOnly(item_id, confirm_publish) ==
    IF item_id \notin DOMAIN queue THEN "queue_item_not_found"
    ELSE IF ~confirm_publish THEN "confirm_publish_required"
    ELSE IF queue[item_id].status # "queued" THEN "queue_item_already_published"
    ELSE ""

\* (Faulty variant: the confirmation is not asked for.)
PublishGateWithoutConfirm(item_id, confirm_publish) ==
    IF item_id \notin DOMAIN queue THEN "queue_item_not_found"
    ELSE IF queue[item_id].status = "published" THEN "queue_item_already_published"
    ELSE ""

\* (Faulty variant: a published item passes the gate.)
PublishGateWithoutStatus(item_id, confirm_publish) ==
    IF item_id \notin DOMAIN queue THEN "queue_item_not_found"
    ELSE IF ~confirm_publish THEN "confirm_publish_required"
    ELSE ""

PublishGate(item_id, confirm_publish) ==
    IF item_id \notin DOMAIN queue THEN "queue_item_not_found"
    ELSE IF ~confirm_publish THEN "confirm_publish_required"
    ELSE IF queue[item_id].status = "published" THEN "queue_item_already_published"
    ELSE ""

\* publish_queue_item, the audit entry of the branch that ran.  (Faulty
\* variant: the "not configured" branches write none.)
PublishAuditConfiguredOnly(log, actor, item_id, out) ==
    IF out.detail = "not_configured" THEN log
    ELSE AddAudit(log, actor, "queue.publish", out.audit_status, item_id, out.detail)

PublishAudit(log, actor, item_id, out) ==
    AddAudit(log, actor, "queue.publish", out.audit_status, item_id, out.detail)

\* publish_queue_item, external_id of the result: "manual-<item_id>" from
\* the branch of "x", the connector's on a publication, None (<<>>) on a
\* failure
ExternalId(channel, item_id, status) ==
    IF status # "published" THEN <<>>
    ELSE IF channel = "x" /\ PublisherSlot(channel) = "" THEN <<"manual-", item_id>>
    ELSE <<"connector-id">>

\* publish_queue_item as a function of the state: the queue, audit log and
\* accounts it leaves and what it returns or raises
PublishCall(item_id, confirm_publish, actor, connector_ok) ==
    LET err == PublishGate(item_id, confirm_publish) IN
    IF err # ""
    THEN [queue |-> queue, audit |-> audit, accounts |-> accounts,
          accounts_saved |-> FALSE,
          ret |-> Ret("publish_queue_item", item_id, err, "", FALSE)]
    ELSE LET item == queue[item_id]
             out == Dispatch(item.target_channel, connector_ok)
         IN [queue |-> [queue EXCEPT ![item_id].status = out.status,
                                     ![item_id].updated_at = now],
             audit |-> PublishAudit(audit, actor, item_id, out),
             accounts |->
                 [accounts EXCEPT ![item.target_channel] =
                     RecordAccountPublishResult(@, item.account_id, out.status)],
             accounts_saved |->
                 /\ item.account_id # ""
                 /\ item.account_id \in AccountIds(accounts[item.target_channel]),
             ret |-> [Ret("publish_queue_item", item_id, "", out.status,
                          out.status = "published")
                      EXCEPT !.call = ExternalId(item.target_channel, item_id,
                                                 out.status)]]

\* the files after a publish_queue_item call: the runtime state is saved by
\* every branch past the gates, the accounts by the bookkeeping of a bound
\* account that exists
PublishSaved(call) ==
    /\ state_file' = IF call.ret.err = "" THEN <<RuntimeState'>> ELSE state_file
    /\ accounts_file' = IF call.accounts_saved THEN <<accounts'>> ELSE accounts_file
    /\ OthersUntouched
    /\ UNCHANGED <<last_refresh_at, cache_file>>

\* publish_queue_item called by a client
PublishQueueItem(item_id, confirm_publish, connector_ok) ==
    LET call == PublishCall(item_id, confirm_publish, "user", connector_ok) IN
    /\ call.ret.err = "" => Len(audit) < MaxAuditQueue
    /\ queue' = call.queue
    /\ audit' = call.audit
    /\ accounts' = call.accounts
    /\ ret' = call.ret
    /\ UNCHANGED <<now, strategies, active_strategy_id, next_account, publishers,
                   llm_enabled, candidates, drafts, draft_cache, sweep>>
    /\ PublishSaved(call)

\* ------------------------------------------------------------- scheduler
\* process_scheduled_queue, the ids it collects under the lock.  (Faulty
\* variant: publish_mode is not looked at.)
IsDueAnyMode(item, t) ==
    /\ item.status = "queued"
    /\ item.scheduled_at # NoTime
    /\ item.scheduled_at <= t

IsDue(item, t) ==
    /\ item.status = "queued"
    /\ item.publish_mode = "auto"
    /\ item.scheduled_at # NoTime
    /\ item.scheduled_at <= t

\* process_scheduled_queue, the comparison item.scheduled_at <= now, now
\* being an aware datetime: it raises TypeError on a naive scheduled_at,
\* and is reached for every queued auto item that has a scheduled_at
DueCheckRaises ==
    \E i \in DOMAIN queue :
        /\ queue[i].status = "queued"
        /\ queue[i].publish_mode = "auto"
        /\ queue[i].scheduled_at = NaiveTime

DueItemIds(t) == SeqOfSet({i \in DOMAIN queue : IsDue(queue[i], t)})

\* process_scheduled_queue, the count after one publish_queue_item call
ProcessedAfter(processed, call_ret) ==
    IF call_ret.err = "" THEN processed + 1 ELSE processed

\* process_scheduled_queue, the ids left to the loop after one turn,
\* whatever the publish_queue_item call returned or raised
RemainingDue(due, call_ret) == Tail(due)

\* process_scheduled_queue, first step: take the clock, collect the due ids
\* under the lock; with none due the call returns 0 at once
SweepCollect ==
    /\ sweep.pc = "idle"
    /\ LET due == DueItemIds(now) IN
       IF DueCheckRaises
       THEN /\ ret' = Ret("process_scheduled_queue", 0, "TypeError", "", FALSE)
            /\ UNCHANGED sweep
       ELSE IF due = <<>>
       THEN /\ sweep' = [pc |-> "idle", due |-> <<>>, processed |-> 0, at |-> now]
            /\ ret' = Ret("process_scheduled_queue", 0, "", "", TRUE)
       ELSE /\ sweep' = [pc |-> "publishing", due |-> due, processed |-> 0, at |-> now]
            /\ UNCHANGED ret
    /\ UNCHANGED <<now, strategies, active_strategy_id, accounts, next_account,
                   publishers, llm_enabled, candidates, drafts, draft_cache, queue,
                   audit>>
    /\ FilesUntouched

\* process_scheduled_queue, one turn of the loop: publish_queue_item on the
\* next collected id, exceptions swallowed; after the last id the call
\* returns the count
SweepPublishCapped(connector_ok, max_audit) ==
    /\ sweep.pc = "publishing"
    /\ LET item_id == Head(sweep.due)
           call == PublishCall(item_id, TRUE, "system:scheduler", connector_ok)
           processed == ProcessedAfter(sweep.processed, call.ret)
           rest == RemainingDue(sweep.due, call.ret)
       IN /\ call.ret.err = "" => Len(audit) < max_audit
          /\ queue' = call.queue
          /\ audit' = call.audit
          /\ accounts' = call.accounts
          /\ sweep' = [sweep EXCEPT !.due = rest, !.processed = processed,
                                    !.pc = IF rest = <<>> THEN "idle" ELSE "publishing"]
          /\ ret' = IF rest = <<>>
                    THEN Ret("process_scheduled_queue", processed, "", "", TRUE)
                    ELSE ret
          /\ UNCHANGED <<now, strategies, active_strategy_id, next_account, publishers,
                         llm_enabled, candidates, drafts, draft_cache>>
          /\ PublishSaved(call)

\* the loop under the audit bound of the queue specification
SweepPublish(connector_ok) == SweepPublishCapped(connector_ok, MaxAuditQueue)

\* the clock advances
Tick(limit) ==
    /\ now < limit
    /\ now' = now + 1
    /\ UNCHANGED <<strategies, active_strategy_id, accounts, next_account, publishers,
                   llm_enabled, candidates, drafts, draft_cache, queue, audit, sweep,
                   ret>>
    /\ FilesUntouched

\* ------------------------------------------------------------ candidates
\* A string is kept as the sequence of its pieces: words, single blanks and
\* the character "|", none of which is part of another.  A URL is kept
\* parsed, as urlsplit and parse_qsl give it: the part before the query, the
\* (key, value) pairs of the query and the fragment; a key is the sequence of
\* its pieces, "utm_" being one.

\* str.lower on one piece
LowerPiece(a) ==
    CASE a = "AI" -> "ai"
      [] a = "Runtime" -> "runtime"
      [] a = "LLM" -> "llm"
      [] a = "EN" -> "en"
      [] a = "Original knowledge source" -> "original knowledge source"
      [] a = "ORIGINAL KNOWLEDGE SOURCE" -> "original knowledge source"
      [] a = "Oryginalne zrodlo wiedzy" -> "oryginalne zrodlo wiedzy"
      [] a = "HTTPS://GITHUB.COM/TRENDING" -> "https://github.com/trending"
      [] a = "PL" -> "pl"
      [] OTHER -> a

\* str.lower
Lower(text) == [i \in DOMAIN text |-> LowerPiece(text[i])]

\* str.strip
Strip(text) ==
    LET inked == {i \in DOMAIN text : text[i] # " "}
    IN IF inked = {} THEN <<>>
       ELSE LET first == Min(inked)
                last == CHOOSE i \in inked : \A j \in inked : j <= i
            IN [i \in 1..(last - first + 1) |-> text[first + i - 1]]

\* the query keys _canonical_url drops
IsTrackingKey(key) ==
    \/ key # <<>> /\ key[1] = "utm_"
    \/ key \in {<<"ref">>, <<"source">>, <<"fbclid">>, <<"gclid">>}

\* _canonical_url
CanonicalUrl(raw_url) ==
    [base |-> raw_url.base,
     query |-> SelectSeq(raw_url.query, LAMBDA kv : ~IsTrackingKey(kv[1])),
     fragment |-> ""]

\* _normalize_lang
NormalizeLang(raw_lang) ==
    LET lowered == Lower(Strip(raw_lang))
    IN IF lowered \in {<<"pl">>, <<"en">>} THEN lowered[1] ELSE "other"

RelevanceKeywords == {"ai", "agent", "llm", "governance", "routing", "memory", "module"}
AuthorityKeywords == {"engineering", "runtime", "python", "devops", "architecture", "platform"}
RiskKeywords == {"giveaway", "crypto moon", "viral trick", "spam"}

Clip(value, top) == IF value < 0 THEN 0 ELSE IF value > top THEN top ELSE value

\* _score_breakdown(...).final_score, times ScoreScale
FinalScore(topic, summary, age_minutes) ==
    LET text == Range(Lower(topic \o <<" ">> \o summary))
        relevance_hits == Cardinality(RelevanceKeywords \cap text)
        authority_hits == Cardinality(AuthorityKeywords \cap text)
        risk_hits == Cardinality(RiskKeywords \cap text)
    IN Clip(1920 * Clip(relevance_hits, 6)
            + Clip(7200 - 5 * age_minutes, 7200)
            + 1440 * Clip(authority_hits, 5)
            - 2880 * Clip(risk_hits, 2), ScoreScale)

\* the string that is hashed into the dedup key; sha256 is taken to be
\* one-to-one
DedupeKey(canonical_url, topic, summary) ==
    <<canonical_url>> \o <<"|">> \o Lower(topic) \o <<"|">> \o Lower(summary)

\* one raw item made a ContentCandidate
ToCandidate(raw) ==
    LET topic == Strip(raw.topic)
        summary == Strip(raw.summary)
    IN [id |-> raw.id, source |-> raw.source, url |-> CanonicalUrl(raw.url),
        topic |-> topic, summary |-> summary,
        language |-> NormalizeLang(raw.language),
        score |-> FinalScore(topic, summary, raw.age_minutes),
        age_minutes |-> raw.age_minutes]

CandidateKey(c) == DedupeKey(c.url, c.topic, c.summary)

\* by_dedupe_key after the loop over the first n raw items: an ordered dict,
\* kept as the sequence of its values; a key keeps the place of its first
\* item, and its value is replaced by a later item of higher score only
RECURSIVE ByDedupeKey(_, _)
ByDedupeKey(raw_items, n) ==
    IF n = 0 THEN <<>>
    ELSE LET before == ByDedupeKey(raw_items, n - 1)
             candidate == ToCandidate(raw_items[n])
             same == {i \in DOMAIN before : CandidateKey(before[i]) = CandidateKey(candidate)}
         IN IF same = {} THEN Append(before, candidate)
            ELSE LET i == CHOOSE i \in same : TRUE
                 IN IF candidate.score > before[i].score
                    THEN [before EXCEPT ![i] = candidate]
                    ELSE before

\* the sort keys (score, -age_minutes) of _normalize_and_rank_candidates and
\* score of list_candidates, compared for "a sorts strictly before b" under
\* reverse=True
RankedBefore(a, b, with_age) ==
    \/ a.score > b.score
    \/ with_age /\ a.score = b.score /\ a.age_minutes < b.age_minutes

\* list.sort(key, reverse=True) is stable: the first n items sorted by
\* descending key, items of equal key in their given order
RECURSIVE SortedDescending(_, _, _)
SortedDescending(items, n, with_age) ==
    IF n = 0 THEN <<>>
    ELSE LET sorted == SortedDescending(items, n - 1, with_age)
             item == items[n]
             ahead == {i \in DOMAIN sorted : ~RankedBefore(item, sorted[i], with_age)}
             k == Cardinality(ahead)
         IN SubSeq(sorted, 1, k) \o <<item>> \o SubSeq(sorted, k + 1, Len(sorted))

\* _normalize_and_rank_candidates
NormalizeAndRankCandidates(raw_items) ==
    LET ranked == ByDedupeKey(raw_items, Len(raw_items))
    IN SortedDescending(ranked, Len(ranked), TRUE)

\* _sample_candidates, the texts cut down to the words that score
SampleRawItems ==
    <<[id |-> 1, source |-> "github",
       url |-> [base |-> <<"https://github.com/trending">>,
                query |-> <<<< <<"utm_", "source">>, "weekly" >>>>, fragment |-> ""],
       topic |-> <<"Runtime", " ", "governance", " ", "AI">>,
       summary |-> <<"governance", " ", "runtime">>,
       language |-> <<"en">>, age_minutes |-> 40],
      [id |-> 2, source |-> "hn",
       url |-> [base |-> <<"https://news.ycombinator.com/item">>,
                query |-> <<<< <<"id">>, "123" >>>>, fragment |-> ""],
       topic |-> <<"LLM", " ", "routing">>,
       summary |-> <<"privacy">>,
       language |-> <<"en">>, age_minutes |-> 120],
      [id |-> 3, source |-> "rss",
       url |-> [base |-> <<"https://example.org/devops-", "ai">>,
                query |-> <<<< <<"ref">>, "feed" >>>>, fragment |-> ""],
       topic |-> <<"pluginowe">>,
       summary |-> <<"platform", "y">>,
       language |-> <<"pl">>, age_minutes |-> 300]>>

SampleCandidates == NormalizeAndRankCandidates(SampleRawItems)

CandidateIds(cands) == {cands[i].id : i \in DOMAIN cands}

\* -------------------------------------------------- candidate listing
\* _is_cache_fresh
IsCacheFreshStrict(cands, refreshed_at, ttl, t) ==
    /\ cands # <<>>
    /\ t - refreshed_at < ttl

IsCacheFresh(cands, refreshed_at, ttl, t) ==
    /\ cands # <<>>
    /\ t - refreshed_at <= ttl

\* refresh_candidates(force): the candidate list and the refresh time after
\* the call, whether the candidates cache was written and whether
\* _fetch_live_items ran (live_items is what it returns when it does)
RefreshCandidates(force, live_items) ==
    LET strategy == ActiveStrategy(strategies, active_strategy_id)
        mode == strategy.discovery_mode
    IN IF ~force /\ IsCacheFresh(candidates, last_refresh_at,
                                 strategy.cache_ttl_seconds, now)
       THEN [candidates |-> candidates, last_refresh_at |-> last_refresh_at,
             written |-> FALSE, fetched |-> FALSE]
       ELSE [candidates |->
                 IF mode = "stub" THEN SampleCandidates
                 ELSE IF live_items # <<>> THEN NormalizeAndRankCandidates(live_items)
                 ELSE IF mode = "live" THEN <<>>
                 ELSE SampleCandidates,
             last_refresh_at |-> now, written |-> TRUE, fetched |-> mode # "stub"]

NoChannel == <<>>

\* Faulty variant of _channel_match: every source suits every channel.
ChannelMatchOpen(source, channel) == TRUE

\* _channel_match; the channel is normalized to its lower-case letters
ChannelMatch(source, channel) ==
    LET normalized ==
            SelectSeq(Lower(channel), LAMBDA a : a \notin {"-", "_", " ", "1"})
    IN IF channel = NoChannel THEN TRUE
       ELSE IF normalized = <<"x">> THEN source \in {"hn", "github", "rss"}
       ELSE IF normalized = <<"github">> THEN source \in {"github", "arxiv"}
       ELSE TRUE

\* the pieces of the URL text that urlunsplit gives
UrlPieces(url) ==
    Range(url.base)
        \cup UNION {Range(url.query[i][1]) \cup {url.query[i][2]} : i \in DOMAIN url.query}

\* _matches_topic_keywords, for keywords that are single lower-case words
\* found in none of the score reasons
MatchesTopicKeywords(item, keywords) ==
    \/ keywords = {}
    \/ keywords \cap (Range(Lower(item.topic)) \cup Range(Lower(item.summary))
                        \cup {LowerPiece(a) : a \in UrlPieces(item.url)}) # {}

\* list_candidates after its refresh: filter, stable sort by descending
\* score, the first min(limit, strategy.limit) items
ListedCandidates(cands, strategy, channel, lang, limit, min_score) ==
    LET effective_min_score == IF min_score = NoScore THEN strategy.min_score ELSE min_score
        effective_limit == IF limit < strategy.limit THEN limit ELSE strategy.limit
        items == SelectSeq(cands, LAMBDA item :
                     /\ item.score >= effective_min_score
                     /\ (lang = "" \/ item.language = lang)
                     /\ ChannelMatch(item.source, channel)
                     /\ MatchesTopicKeywords(item, strategy.topic_keywords))
        sorted == SortedDescending(items, Len(items), FALSE)
    IN SubSeq(sorted, 1, IF effective_limit < Len(sorted) THEN effective_limit
                         ELSE Len(sorted))

\* process_scheduled_queue run from its first line to its return with no
\* other call in between: what it leaves and returns or raises.  Every id
\* it collects is a queued item, so each publish_queue_item call passes
\* the gates and runs the branch of the item's channel; oks[i] says whether
\* the connector called for item i returns.
RECURSIVE SweepLoop(_, _, _, _, _)
SweepLoop(q, log, accs, due, oks) ==
    IF due = <<>> THEN [queue |-> q, audit |-> log, accounts |-> accs]
    ELSE LET i == Head(due)
             out == Dispatch(q[i].target_channel, oks[i])
         IN SweepLoop([q EXCEPT ![i].status = out.status, ![i].updated_at = now],
                      PublishAudit(log, "system:scheduler", i, out),
                      [accs EXCEPT ![q[i].target_channel] =
                          RecordAccountPublishResult(@, q[i].account_id, out.status)],
                      Tail(due), oks)

SweepCall(oks) ==
    IF DueCheckRaises
    THEN [queue |-> queue, audit |-> audit, accounts |-> accounts,
          err |-> "TypeError", processed |-> 0, accounts_saved |-> FALSE]
    ELSE LET due == DueItemIds(now)
             swept == SweepLoop(queue, audit, accounts, due, oks)
         IN [queue |-> swept.queue, audit |-> swept.audit, accounts |-> swept.accounts,
             err |-> "", processed |-> Len(due),
             accounts_saved |->
                 \E k \in DOMAIN due :
                     /\ queue[due[k]].account_id # ""
                     /\ queue[due[k]].account_id \in
                            AccountIds(accounts[queue[due[k]].target_channel])]

\* the queue, the audit log, the accounts and their files after a call that
\* runs process_scheduled_queue first
SweptBy(swept) ==
    /\ Len(swept.audit) <= MaxAuditSweep
    /\ queue' = swept.queue
    /\ audit' = swept.audit
    /\ accounts' = swept.accounts
    /\ sweep' = IF swept.err # "" THEN sweep
                ELSE [pc |-> "idle", due |-> <<>>, processed |-> 0, at |-> now]
    /\ state_file' = IF swept.processed > 0 THEN <<RuntimeState'>> ELSE state_file
    /\ accounts_file' = IF swept.accounts_saved THEN <<accounts'>> ELSE accounts_file
    /\ OthersUntouched

\* the connectors' outcomes for the items of a sweep: all return or all
\* raise
ConnectorOutcomes == {[i \in 1..MaxQueue |-> ok] : ok \in BOOLEAN}

\* list_candidates: the refresh, the sweep of the due queue items, then the
\* listing.  A TypeError of the sweep leaves the call after the refresh.
ListCandidatesSwept(channel, lang, limit, min_score, live_items, oks) ==
    LET refreshed == RefreshCandidates(FALSE, live_items)
        active == ActiveStrategyId(strategies, active_strategy_id)
        strategy == GetStrategy(strategies, active)
        swept == SweepCall(oks)
    IN /\ sweep.pc = "idle"
       /\ candidates' = refreshed.candidates
       /\ last_refresh_at' = refreshed.last_refresh_at
       /\ cache_file' = IF refreshed.written
                        THEN <<[refreshed_at |-> refreshed.last_refresh_at,
                                items |-> refreshed.candidates]>>
                        ELSE cache_file
       /\ active_strategy_id' = active
       /\ UNCHANGED <<now, strategies, next_account, publishers, llm_enabled,
                      drafts, draft_cache>>
       /\ SweptBy(swept)
       /\ ret' = IF swept.err # ""
                 THEN Ret("list_candidates", 0, swept.err, "", FALSE)
                 ELSE [Ret("list_candidates", 0, "", "", TRUE) EXCEPT
                     !.call = [channel |-> channel, lang |-> lang, limit |-> limit,
                               min_score |-> min_score, fetched |-> refreshed.fetched,
                               items |-> ListedCandidates(refreshed.candidates, strategy,
                                            channel, lang, limit, min_score),
                               refreshed_at |-> refreshed.last_refresh_at]]

ListCandidates(channel, lang, limit, min_score, live_items) ==
    \E oks \in ConnectorOutcomes :
        ListCandidatesSwept(channel, lang, limit, min_score, live_items, oks)

\* ------------------------------------------------------- draft generation
\* a tone or campaign_id of None, as against the empty string
NoneValue == "<None>"

\* _draft_cache_key: the JSON text of the five fields, None written as ""
DraftCacheKey(req) ==
    [candidate_id |-> req.candidate_id,
     channels |-> req.channels,
     languages |-> req.languages,
     tone |-> IF req.tone = NoneValue THEN "" ELSE req.tone,
     campaign_id |-> IF req.campaign_id = NoneValue THEN "" ELSE req.campaign_id]

NoDraft == 0

CacheWithout(cache, key) == [k \in DOMAIN cache \ {key} |-> cache[k]]

CacheWith(cache, key, draft_id, generated_at) ==
    [k \in DOMAIN cache \cup {key} |->
        IF k = key THEN [draft_id |-> draft_id, generated_at |-> generated_at]
        ELSE cache[k]]

\* Faulty variant of GetCachedDraft: an entry as old as the TTL has expired.
GetCachedDraftStrictAge(cache, bundles, key, t) ==
    IF key \notin DOMAIN cache THEN [cache |-> cache, draft_id |-> NoDraft]
    ELSE IF t - cache[key].generated_at >= DraftCacheTtl
    THEN [cache |-> CacheWithout(cache, key), draft_id |-> NoDraft]
    ELSE IF cache[key].draft_id \notin DOMAIN bundles
    THEN [cache |-> CacheWithout(cache, key), draft_id |-> NoDraft]
    ELSE [cache |-> cache, draft_id |-> cache[key].draft_id]

\* _get_cached_draft: the cached bundle's id (NoDraft for None) and the
\* cache as the lookup leaves it
GetCachedDraft(cache, bundles, key, t) ==
    IF key \notin DOMAIN cache THEN [cache |-> cache, draft_id |-> NoDraft]
    ELSE IF t - cache[key].generated_at > DraftCacheTtl
    THEN [cache |-> CacheWithout(cache, key), draft_id |-> NoDraft]
    ELSE IF cache[key].draft_id \notin DOMAIN bundles
    THEN [cache |-> CacheWithout(cache, key), draft_id |-> NoDraft]
    ELSE [cache |-> cache, draft_id |-> cache[key].draft_id]

\* _cleanup_draft_cache
CleanupDraftCache(cache, bundles, t) ==
    [k \in {k \in DOMAIN cache :
               /\ cache[k].draft_id \in DOMAIN bundles
               /\ t - cache[k].generated_at <= DraftCacheTtl} |-> cache[k]]

\* str.rstrip
Rstrip(text) ==
    LET inked == {i \in DOMAIN text : text[i] # " "}
    IN IF inked = {} THEN <<>>
       ELSE SubSeq(text, 1, CHOOSE i \in inked : \A j \in inked : j <= i)

\* needle in text
Contains(text, needle) ==
    \E i \in 0..(Len(text) - Len(needle)) : SubSeq(text, i + 1, i + Len(needle)) = needle

\* the text of a candidate URL, as urlunsplit wrote it
UrlText(url) ==
    url.base \o
    Flatten([i \in DOMAIN url.query |->
                <<IF i = 1 THEN "?" ELSE "&">> \o url.query[i][1] \o <<"=", url.query[i][2]>>])

\* the attribution phrases ("Oryginalne źródło wiedzy" written without its
\* diacritics)
AttributionPhrase(language) ==
    IF language = "pl" THEN "Oryginalne zrodlo wiedzy" ELSE "Original knowledge source"

\* _fallback_primary_content
FallbackPrimaryContent(candidate, language, tone) ==
    Strip(candidate.topic \o <<": ">> \o candidate.summary \o <<" ">>
          \o <<IF language = "pl"
               THEN "Moja perspektywa inzynierska i praktyczne wnioski."
               ELSE "My engineering perspective with practical takeaways.">>
          \o (IF tone \in {"", NoneValue} THEN <<>> ELSE <<" (", tone, ")">>))

\* _fallback_supporting_content
FallbackSupportingContent(source_ref, candidate, primary_content, language) ==
    Strip(<<IF language = "pl" THEN "Cytujac " ELSE "Quoting ">> \o source_ref
          \o <<": ">> \o candidate.topic \o <<". ", AttributionPhrase(language), ": ">>
          \o UrlText(candidate.url) \o <<" | ">> \o primary_content)

\* _ensure_supporting_attribution
EnsureSupportingAttribution(text, language, candidate_url) ==
    LET normalized == Lower(text)
        has_url == Contains(normalized, Lower(UrlText(candidate_url)))
        has_phrase == Contains(normalized, <<LowerPiece(AttributionPhrase(language))>>)
    IN IF has_phrase /\ has_url THEN text
       ELSE Rstrip(text) \o <<"\n\n", AttributionPhrase(language), ": ">>
                \o UrlText(candidate_url)

\* the candidate of a generate_draft call
CandidateOf(cands, candidate_id) ==
    cands[CHOOSE i \in DOMAIN cands :
             /\ cands[i].id = candidate_id
             /\ \A j \in DOMAIN cands : cands[j].id = candidate_id => i <= j]

\* a job of _generate_many_draft_texts_with_llm_fallback, named by its
\* audit context
PrimaryJob(channel, language) == <<"primary", channel, language, "">>
SupportingJob(channel, language, account_id) == <<"supporting", channel, language, account_id>>

\* the text a job resolves to: the fallback when the LLM client is disabled
\* or its call raised, else the text the LLM gave
ResolvedText(job, fails, llm_text, fallback) ==
    IF ~llm_enabled \/ job \in Range(fails) THEN fallback ELSE llm_text

\* stage 1 of generate_draft: one primary variant per channel and language
PrimaryContent(req, channel, language, fails, llm) ==
    ResolvedText(PrimaryJob(channel, language), fails, llm.primary,
                 FallbackPrimaryContent(CandidateOf(candidates, req.candidate_id),
                                        language, req.tone))

PrimaryVariants(req, fails, llm) ==
    LET nl == Len(req.languages) IN
    [k \in 1..(Len(req.channels) * nl) |->
        LET channel == req.channels[((k - 1) \div nl) + 1]
            language == req.languages[((k - 1) % nl) + 1]
        IN [channel |-> channel, language |-> language, account_id |-> "",
            content |-> PrimaryContent(req, channel, language, fails, llm)]]

\* stage 2 of generate_draft, its source_ref: the display name of the
\* channel's first enabled primary account (its account id here), else the
\* candidate URL
SourceRef(accs, candidate) ==
    LET primaries == {i \in DOMAIN accs : accs[i].role = "primary" /\ accs[i].enabled}
    IN IF primaries # {} THEN <<accs[Min(primaries)].account_id>>
       ELSE UrlText(candidate.url)

\* stage 2 of generate_draft: one variant per enabled supporting account of
\* each channel and language, its text put through
\* _ensure_supporting_attribution
SupportingVariants(req, fails, llm) ==
    LET candidate == CandidateOf(candidates, req.candidate_id) IN
    Flatten([i \in DOMAIN req.channels |->
        LET channel == req.channels[i]
            accs == accounts[channel]
        IN
        Flatten([j \in DOMAIN accs |->
            IF accs[j].role = "supporting" /\ accs[j].enabled
            THEN [k \in DOMAIN req.languages |->
                     LET language == req.languages[k]
                         teaser ==
                             ResolvedText(
                                 SupportingJob(channel, language, accs[j].account_id),
                                 fails, llm.supporting,
                                 FallbackSupportingContent(
                                     SourceRef(accs, candidate), candidate,
                                     PrimaryContent(req, channel, language, fails, llm),
                                     language))
                     IN [channel |-> channel, language |-> language,
                         account_id |-> accs[j].account_id,
                         content |-> EnsureSupportingAttribution(teaser, language,
                                                                 candidate.url)]]
            ELSE <<>>])])

\* the jobs of a call, primary ones first
DraftJobs(req) ==
    [k \in 1..(Len(req.channels) * Len(req.languages)) |->
        PrimaryJob(req.channels[((k - 1) \div Len(req.languages)) + 1],
                   req.languages[((k - 1) % Len(req.languages)) + 1])]
    \o Flatten([i \in DOMAIN req.channels |->
          Flatten([j \in DOMAIN accounts[req.channels[i]] |->
              IF accounts[req.channels[i]][j].role = "supporting"
                 /\ accounts[req.channels[i]][j].enabled
              THEN [k \in DOMAIN req.languages |->
                       SupportingJob(req.channels[i], req.languages[k],
                                     accounts[req.channels[i]][j].account_id)]
              ELSE <<>>])])

\* the jobs whose LLM call may raise, in the order the fallbacks are
\* audited: none when the LLM client is disabled, else up to two jobs whose
\* key is asked for once, a primary job never after a supporting one
LlmFailures(req) ==
    LET jobs == DraftJobs(req)
        once == {jobs[i] : i \in {i \in DOMAIN jobs :
                                     \A j \in DOMAIN jobs : jobs[j] = jobs[i] => j = i}}
    IN IF ~llm_enabled THEN {<<>>}
       ELSE {<<>>} \cup {<<a>> : a \in once}
               \cup {<<p[1], p[2]>> : p \in {q \in once \X once :
                                               /\ q[1] # q[2]
                                               /\ ~(q[1][1] = "supporting"
                                                    /\ q[2][1] = "primary")}}

\* the audit context of a job
AuditContext(job) ==
    job[1] \o ":" \o job[2] \o ":" \o job[3]
        \o (IF job[1] = "supporting" THEN ":" \o job[4] ELSE "")

\* the draft.generate.llm entries of the jobs that fell back
RECURSIVE FallbackAudit(_, _, _)
FallbackAudit(log, actor, fails) ==
    IF fails = <<>> THEN log
    ELSE FallbackAudit(
            AddAudit(log, actor, "draft.generate.llm", "fallback", NoDraft,
                     AuditContext(Head(fails))),
            actor, Tail(fails))

\* the texts the LLM client gives when its call succeeds, for a primary and
\* for a supporting prompt
LlmAnswers ==
    [primary : {<<"Post">>},
     supporting : {<<"Teaser", " ">>,
                   <<"Teaser", " ", "Original knowledge source", ": ",
                     "https://github.com/trending">>,
                   <<"Teaser", " ", "ORIGINAL KNOWLEDGE SOURCE", ": ",
                     "HTTPS://GITHUB.COM/TRENDING">>}]

\* generate_draft, the LLM answering llm where its call succeeds
GenerateDraftAnswered(req, refresh, fails, llm) ==
    LET key == DraftCacheKey(req)
        cached == GetCachedDraft(draft_cache, drafts, key, now)
        draft_id == Len(drafts) + 1
        bundle == [draft_id |-> draft_id,
                   candidate_id |-> req.candidate_id,
                   campaign_id |-> key.campaign_id,
                   variants |-> IF req.candidate_id \in CandidateIds(candidates)
                                THEN PrimaryVariants(req, fails, llm)
                                         \o SupportingVariants(req, fails, llm)
                                ELSE <<>>]
        bundles == Append(drafts, bundle)
        Answer(id) == [Ret("generate_draft", id, "", "", TRUE)
                          EXCEPT !.call = <<req, refresh, now>>]
    IN
    /\ IF req.candidate_id \notin CandidateIds(candidates)
       THEN /\ ret' = [Ret("generate_draft", NoDraft, "candidate_not_found", "", FALSE)
                          EXCEPT !.call = <<req, refresh, now>>]
            /\ UNCHANGED <<drafts, draft_cache, audit>>
       ELSE IF ~refresh /\ cached.draft_id # NoDraft
       THEN /\ Len(audit) < MaxAuditDraft
            /\ fails = <<>>
            /\ audit' = AddAudit(audit, "user", "draft.generate", "cached",
                                 cached.draft_id, "")
            /\ ret' = Answer(cached.draft_id)
            /\ UNCHANGED <<drafts, draft_cache>>
       ELSE /\ Len(audit) + Len(fails) < MaxAuditDraft
            /\ Len(drafts) < MaxDrafts
            /\ drafts' = bundles
            /\ draft_cache' =
                  CleanupDraftCache(
                      CacheWith(IF refresh THEN draft_cache ELSE cached.cache,
                                key, draft_id, now),
                      bundles, now)
            /\ audit' = AddAudit(FallbackAudit(audit, "user", fails), "user",
                                 "draft.generate", "ok", draft_id, key.campaign_id)
            /\ ret' = Answer(draft_id)
    /\ UNCHANGED <<now, strategies, active_strategy_id, accounts, next_account,
                   publishers, llm_enabled, candidates, queue, sweep>>
    /\ SavedOnSuccess(TRUE, FALSE)

\* generate_draft
GenerateDraft(req, refresh, fails) ==
    \E llm \in LlmAnswers : GenerateDraftAnswered(req, refresh, fails, llm)

\* the external sources, in the order _fetch_live_items asks them
Sources == <<"rss", "github", "hn", "arxiv">>

Raised == "raised"

\* the sources a forced refresh asks: none in stub mode, the RSS feeds only
\* when the strategy names some
SourcesCalled(mode, rss_urls) ==
    IF mode = "stub" THEN {}
    ELSE {s \in Range(Sources) : s = "rss" => rss_urls # <<>>}

\* (Faulty variant: the first source that raises ends the fetch.)
FetchLiveItemsUntilFailure(rss_urls, outcome) ==
    LET asked == SelectSeq(Sources, LAMBDA s : s \in SourcesCalled("live", rss_urls))
        failed == {i \in DOMAIN asked : outcome[asked[i]] = Raised}
        last == IF failed = {} THEN Len(asked) ELSE Min(failed) - 1
    IN Flatten([i \in 1..last |-> outcome[asked[i]]])

\* _fetch_live_items: the items of the sources asked, each source either
\* returning a list or raising
FetchLiveItems(rss_urls, outcome) ==
    Flatten([i \in DOMAIN Sources |->
                IF Sources[i] \notin SourcesCalled("live", rss_urls)
                   \/ outcome[Sources[i]] = Raised
                THEN <<>> ELSE outcome[Sources[i]]])

\* force_refresh: refresh_candidates(force=True) with the items the live
\* sources return, then the audit entry; asked tells what the call did
\* with the sources
ForceRefreshAsking(live_items, asked) ==
    LET active == ActiveStrategyId(strategies, active_strategy_id)
        mode == GetStrategy(strategies, active).discovery_mode
    IN
    /\ Len(audit) < MaxAuditDraft
    /\ active_strategy_id' = active
    /\ candidates' = IF mode = "stub" THEN SampleCandidates
                     ELSE IF live_items # <<>> THEN NormalizeAndRankCandidates(live_items)
                     ELSE IF mode = "live" THEN <<>>
                     ELSE SampleCandidates
    /\ audit' = AddAudit(audit, "user", "config.refresh", "ok", 0, "refresh")
    /\ ret' = [Ret("force_refresh", Len(candidates'), "", "", TRUE) EXCEPT !.call = asked]
    /\ last_refresh_at' = now
    /\ cache_file' = <<[refreshed_at |-> now, items |-> candidates']>>
    /\ UNCHANGED <<now, strategies, accounts, next_account, publishers, llm_enabled,
                   drafts, draft_cache, queue, sweep, accounts_file>>
    /\ OthersUntouched
    /\ state_file' = <<RuntimeState'>>

ForceRefresh(live_items) == ForceRefreshAsking(live_items, <<>>)

\* force_refresh, the sources answering as outcome says
ForceRefreshFetching(outcome) ==
    LET strategy == ActiveStrategy(strategies, active_strategy_id)
        called == SourcesCalled(strategy.discovery_mode, strategy.rss_urls)
    IN ForceRefreshAsking(
          IF called = {} THEN <<>> ELSE FetchLiveItems(strategy.rss_urls, outcome),
          [called |-> called, raised |-> {s \in called : outcome[s] = Raised}])

\* ------------------------------------------------------- account actions
\* delete_channel_account
DeleteChannelAccount(channel, account_id) ==
    /\ IF account_id \notin AccountIds(accounts[channel])
       THEN /\ ret' = Ret("delete_channel_account", 0, "account_not_found", "", FALSE)
            /\ UNCHANGED <<accounts, audit, strategies>>
       ELSE /\ Len(audit) < MaxAuditQueue
            /\ accounts' = [accounts EXCEPT ![channel] =
                  MarkSingleDefault(RemoveAt(@, AccountPos(@, account_id)))]
            /\ audit' = AddAudit(audit, "user", "account.delete", "ok", 0, account_id)
            /\ strategies' =
                  [i \in DOMAIN strategies |->
                      IF strategies[i].default_accounts[channel] = account_id
                      THEN [strategies[i] EXCEPT !.default_accounts[channel] = ""]
                      ELSE strategies[i]]
            /\ ret' = Ret("delete_channel_account", 0, "", "", TRUE)
    /\ UNCHANGED <<now, active_strategy_id, next_account, publishers, llm_enabled,
                   candidates, drafts, draft_cache, queue, sweep>>
    /\ SavedOnSuccess(TRUE, TRUE)

\* what the accounts operations leave alone, and the files they save
UnchangedButAccounts ==
    /\ UNCHANGED <<now, publishers, llm_enabled, candidates, drafts, draft_cache,
                   queue, sweep>>
    /\ SavedOnSuccess(TRUE, TRUE)

\* an optional boolean of a request: <<>> for None, <<b>> for b
OrKeep(optional, current) == IF optional = <<>> THEN current ELSE optional[1]

\* the role and supports_account_id checks of create_channel_account and
\* update_credential_profile: the error raised, "" for none
SupportsCheck(accs, role, supports) ==
    IF role # "supporting" THEN ""
    ELSE IF supports = "" THEN "supporting_account_requires_supports_account_id"
    ELSE IF supports \notin AccountIds(accs) THEN "supports_account_id_not_found"
    ELSE IF GetAccount(accs, supports).role # "primary"
    THEN "supports_account_id_must_reference_primary_account"
    ELSE ""

\* the active strategy with account_id as its default account of channel
WithDefaultAccount(ss, active, channel, account_id) ==
    LET id == ActiveStrategyId(ss, active) IN
    PutStrategy(ss, [GetStrategy(ss, id) EXCEPT !.default_accounts[channel] = account_id])

\* create_channel_account
CreateChannelAccount(channel, payload) ==
    LET current == accounts[channel]
        account_id == AccountName(channel, next_account)
        err == SupportsCheck(current, payload.role, payload.supports_account_id)
        created == NewAccount(account_id, payload.enabled,
                              payload.is_default \/ current = <<>>,
                              payload.role, payload.supports_account_id)
        marked == MarkSingleDefault(Append(current, created))
        active == ActiveStrategyId(strategies, active_strategy_id)
        default == DefaultAccountForChannel(marked)
    IN
    /\ IF err # ""
       THEN /\ ret' = Ret("create_channel_account", 0, err, "", FALSE)
            /\ UNCHANGED <<accounts, next_account, audit, strategies, active_strategy_id>>
       ELSE /\ next_account <= MaxNewAccounts
            /\ Len(audit) < MaxAuditQueue
            /\ accounts' = [accounts EXCEPT ![channel] = marked]
            /\ next_account' = next_account + 1
            /\ audit' = AddAudit(audit, "user", "account.create", "ok", 0, account_id)
            /\ active_strategy_id' = active
            /\ strategies' =
                  IF GetStrategy(strategies, active).default_accounts[channel] = ""
                     /\ default # ""
                  THEN WithDefaultAccount(strategies, active_strategy_id, channel, default)
                  ELSE strategies
            /\ ret' = Ret("create_channel_account", 0, "", account_id, TRUE)
    /\ UnchangedButAccounts

\* update_channel_account: the payload's display_name, enabled and
\* is_default, each optional
UpdateChannelAccount(channel, account_id, payload) ==
    LET current == accounts[channel] IN
    /\ IF account_id \notin AccountIds(current)
       THEN /\ ret' = Ret("update_channel_account", 0, "account_not_found", "", FALSE)
            /\ UNCHANGED <<accounts, audit>>
       ELSE /\ Len(audit) < MaxAuditQueue
            /\ accounts' = [accounts EXCEPT ![channel] =
                  MarkSingleDefault(
                      [current EXCEPT ![AccountPos(current, account_id)] =
                          [@ EXCEPT !.display_name = OrKeep(payload.display_name, @),
                                    !.enabled = OrKeep(payload.enabled, @),
                                    !.is_default = OrKeep(payload.is_default, @)]])]
            /\ audit' = AddAudit(audit, "user", "account.update", "ok", 0, account_id)
            /\ ret' = Ret("update_channel_account", 0, "", account_id, TRUE)
    /\ UNCHANGED <<strategies, active_strategy_id, next_account>>
    /\ UnchangedButAccounts

\* activate_channel_account
ActivateChannelAccount(channel, account_id) ==
    LET current == accounts[channel] IN
    /\ IF account_id \notin AccountIds(current)
       THEN /\ ret' = Ret("activate_channel_account", 0, "account_not_found", "", FALSE)
            /\ UNCHANGED <<accounts, audit, strategies, active_strategy_id>>
       ELSE /\ Len(audit) < MaxAuditQueue
            /\ accounts' = [accounts EXCEPT ![channel] =
                  [i \in DOMAIN current |->
                      [current[i] EXCEPT !.is_default = (current[i].account_id = account_id)]]]
            /\ active_strategy_id' = ActiveStrategyId(strategies, active_strategy_id)
            /\ strategies' = WithDefaultAccount(strategies, active_strategy_id, channel,
                                                account_id)
            /\ audit' = AddAudit(audit, "user", "account.activate", "ok", 0, account_id)
            /\ ret' = Ret("activate_channel_account", 0, "", account_id, TRUE)
    /\ UNCHANGED next_account
    /\ UnchangedButAccounts

\* SUPPORTED_CHANNELS in the order _find_account_by_profile_id scans them
ChannelScanOrder == <<"x", "github", "devto">>

\* _find_account_by_profile_id: the channel, "" for CredentialProfileNotFoundError
FindChannelByProfileId(profile_id) ==
    LET hits == {i \in DOMAIN ChannelScanOrder :
                    profile_id \in AccountIds(accounts[ChannelScanOrder[i]])}
    IN IF hits = {} THEN "" ELSE ChannelScanOrder[Min(hits)]

\* _profile_role_to_account_role
ProfileRoleToAccountRole(role) == IF role = "primary_brand" THEN "primary" ELSE "supporting"

\* update_credential_profile: the payload's role ("" for None),
\* supports_profile_id ("" for None), enabled and is_default (optional)
UpdateCredentialProfile(profile_id, payload) ==
    LET channel == FindChannelByProfileId(profile_id)
        current == accounts[channel]
        account == GetAccount(current, profile_id)
        role == IF payload.role # "" THEN ProfileRoleToAccountRole(payload.role)
                ELSE account.role
        wanted == IF payload.supports_profile_id = "" THEN account.supports_account_id
                  ELSE payload.supports_profile_id
        err == SupportsCheck(current, role, wanted)
        supports == IF role = "supporting" THEN wanted ELSE ""
    IN
    /\ IF channel = ""
       THEN /\ ret' = Ret("update_credential_profile", 0, "profile_not_found", "", FALSE)
            /\ UNCHANGED <<accounts, audit>>
       ELSE IF err # ""
       THEN /\ ret' = Ret("update_credential_profile", 0, err, "", FALSE)
            /\ UNCHANGED <<accounts, audit>>
       ELSE /\ Len(audit) < MaxAuditQueue
            /\ accounts' = [accounts EXCEPT ![channel] =
                  MarkSingleDefault(
                      [current EXCEPT ![AccountPos(current, profile_id)] =
                          [@ EXCEPT !.enabled = OrKeep(payload.enabled, @),
                                    !.is_default = OrKeep(payload.is_default, @),
                                    !.role = role,
                                    !.supports_account_id = supports]])]
            /\ audit' = AddAudit(audit, "user", "credential_profile.update", "ok", 0,
                                 profile_id)
            /\ ret' = Ret("update_credential_profile", 0, "", profile_id, TRUE)
    /\ UNCHANGED <<strategies, active_strategy_id, next_account>>
    /\ UnchangedButAccounts

\* activate_credential_profile
ActivateCredentialProfile(profile_id) ==
    LET channel == FindChannelByProfileId(profile_id)
        current == accounts[channel]
        activated == [i \in DOMAIN current |->
                        [current[i] EXCEPT
                            !.enabled = IF current[i].account_id = profile_id THEN TRUE ELSE @,
                            !.is_default = (current[i].account_id = profile_id)]]
    IN
    /\ IF channel = ""
       THEN /\ ret' = Ret("activate_credential_profile", 0, "profile_not_found", "", FALSE)
            /\ UNCHANGED <<accounts, audit, strategies, active_strategy_id>>
       ELSE /\ Len(audit) < MaxAuditQueue
            /\ accounts' = [c \in SUPPORTED_CHANNELS |->
                  MarkSingleDefault(IF c = channel THEN activated ELSE accounts[c])]
            /\ active_strategy_id' = ActiveStrategyId(strategies, active_strategy_id)
            /\ strategies' = WithDefaultAccount(strategies, active_strategy_id, channel,
                                                profile_id)
            /\ audit' = AddAudit(audit, "user", "account.activate", "ok", 0, profile_id)
            /\ ret' = Ret("activate_credential_profile", 0, "", profile_id, TRUE)
    /\ UNCHANGED next_account
    /\ UnchangedButAccounts

\* ------------------------------------------------------ strategy actions
StrategyIdInputs == 0..MaxStrategies

StrategyPool == 1..MaxStrategies

\* StrategyFieldsBase / ConfigUpdateRequest payloads
StrategyPayloads ==
    {[NoChange EXCEPT !.discovery_mode = "live"],
     [NoChange EXCEPT !.set_defaults = TRUE]}

UnchangedButStrategies ==
    /\ UNCHANGED <<now, accounts, next_account, publishers, llm_enabled,
                   candidates, drafts, draft_cache, queue, sweep>>
    /\ SavedOnSuccess(TRUE, FALSE)

\* update_active_config
UpdateActiveConfig(payload) ==
    LET id == ActiveStrategyId(strategies, active_strategy_id)
        strategy == MergeStrategy(GetStrategy(strategies, id), payload)
    IN /\ Len(audit) < MaxAuditStrategy
       /\ strategies' = PutStrategy(strategies, strategy)
       /\ active_strategy_id' = id
       /\ audit' = AddAudit(audit, "user", "config.update", "ok", id, "")
       /\ ret' = Ret("update_active_config", id, "", "", TRUE)
       /\ UnchangedButStrategies

\* create_strategy; base_id = NoStrategy stands for "no base_strategy_id";
\* new_id is the id uuid4 yields
CreateStrategy(base_id, payload, new_id) ==
    LET active == ActiveStrategyId(strategies, active_strategy_id) IN
    /\ active_strategy_id' = active
    /\ IF base_id >= 0 /\ base_id \notin StrategyIds(strategies)
       THEN /\ ret' = Ret("create_strategy", base_id, "strategy_not_found", "", FALSE)
            /\ UNCHANGED <<strategies, audit>>
       ELSE /\ Len(audit) < MaxAuditStrategy
            /\ Len(strategies) < MaxStrategies
            /\ new_id \notin StrategyIds(strategies)
            /\ LET base == IF base_id >= 0 THEN GetStrategy(strategies, base_id)
                           ELSE GetStrategy(strategies, active)
                   created == [MergeStrategy(base, payload) EXCEPT !.id = new_id]
               IN strategies' = PutStrategy(strategies, created)
            /\ audit' = AddAudit(audit, "user", "strategy.create", "ok", new_id, "")
            /\ ret' = Ret("create_strategy", new_id, "", "", TRUE)
    /\ UnchangedButStrategies

\* update_strategy
UpdateStrategy(strategy_id, payload) ==
    /\ IF strategy_id \notin StrategyIds(strategies)
       THEN /\ ret' = Ret("update_strategy", strategy_id, "strategy_not_found", "", FALSE)
            /\ UNCHANGED <<strategies, audit>>
       ELSE /\ Len(audit) < MaxAuditStrategy
            /\ strategies' = PutStrategy(strategies,
                   MergeStrategy(GetStrategy(strategies, strategy_id), payload))
            /\ audit' = AddAudit(audit, "user", "strategy.update", "ok", strategy_id, "")
            /\ ret' = Ret("update_strategy", strategy_id, "", "", TRUE)
    /\ UNCHANGED active_strategy_id
    /\ UnchangedButStrategies

\* delete_strategy
\* delete_strategy.  (Faulty variant: the last-strategy check is missing.)
DeleteStrategyUnguarded(strategy_id) ==
    /\ IF strategy_id \notin StrategyIds(strategies)
       THEN /\ ret' = Ret("delete_strategy", strategy_id, "strategy_not_found", "", FALSE)
            /\ UNCHANGED <<strategies, active_strategy_id, audit>>
       ELSE /\ Len(audit) < MaxAuditStrategy
            /\ LET remaining == RemoveAt(strategies, StrategyPos(strategies, strategy_id))
               IN /\ strategies' = remaining
                  /\ active_strategy_id' =
                        IF remaining = <<>> THEN active_strategy_id
                        ELSE ActiveAfterDelete(remaining, active_strategy_id, strategy_id)
            /\ audit' = AddAudit(audit, "user", "strategy.delete", "ok", strategy_id, "")
            /\ ret' = Ret("delete_strategy", strategy_id, "", "", TRUE)
    /\ UnchangedButStrategies

DeleteStrategy(strategy_id) ==
    /\ IF strategy_id \notin StrategyIds(strategies)
       THEN /\ ret' = Ret("delete_strategy", strategy_id, "strategy_not_found", "", FALSE)
            /\ UNCHANGED <<strategies, active_strategy_id, audit>>
       ELSE IF Len(strategies) = 1
       THEN /\ ret' = Ret("delete_strategy", strategy_id,
                          "last_strategy_cannot_be_deleted", "", FALSE)
            /\ UNCHANGED <<strategies, active_strategy_id, audit>>
       ELSE /\ Len(audit) < MaxAuditStrategy
            /\ LET remaining == RemoveAt(strategies, StrategyPos(strategies, strategy_id))
               IN /\ strategies' = remaining
                  /\ active_strategy_id' =
                        ActiveAfterDelete(remaining, active_strategy_id, strategy_id)
            /\ audit' = AddAudit(audit, "user", "strategy.delete", "ok", strategy_id, "")
            /\ ret' = Ret("delete_strategy", strategy_id, "", "", TRUE)
    /\ UnchangedButStrategies

\* activate_strategy
ActivateStrategy(strategy_id) ==
    /\ IF strategy_id \notin StrategyIds(strategies)
       THEN /\ ret' = Ret("activate_strategy", strategy_id, "strategy_not_found", "", FALSE)
            /\ UNCHANGED <<active_strategy_id, audit>>
       ELSE /\ Len(audit) < MaxAuditStrategy
            /\ active_strategy_id' = strategy_id
            /\ audit' = AddAudit(audit, "user", "strategy.activate", "ok", strategy_id, "")
            /\ ret' = Ret("activate_strategy", strategy_id, "", "", TRUE)
    /\ UNCHANGED strategies
    /\ UnchangedButStrategies

\* ------------------------------------------------------------ construction
\* __init__ with no state files: _init_default_strategy and
\* _init_default_accounts (the default strategy maps each default account as
\* its channel's default account)
InitAccounts ==
    [c \in SUPPORTED_CHANNELS |->
        IF c \in DefaultAccountChannels
        THEN MarkSingleDefault(
                <<NewAccount(DefaultAccountName(c), TRUE, TRUE, "primary", "")>>)
        ELSE <<>>]

InitStrategies ==
    <<[id |-> 0, discovery_mode |-> "hybrid",
       cache_ttl_seconds |-> DefaultCacheTtl, min_score |-> DefaultMinScore,
       limit |-> DefaultLimit, topic_keywords |-> {},
       default_accounts |->
           [c \in SUPPORTED_CHANNELS |-> DefaultAccountForChannel(InitAccounts[c])]]>>

NoSweep == [pc |-> "idle", due |-> <<>>, processed |-> 0, at |-> NoTime]

InitService ==
    /\ now = 0
    /\ strategies = InitStrategies
    /\ active_strategy_id = 0
    /\ accounts = InitAccounts
    /\ next_account = 1
    /\ candidates = <<>>
    /\ drafts = <<>>
    /\ draft_cache = EmptyMap
    /\ queue = <<>>
    /\ audit = <<>>
    /\ sweep = NoSweep
    /\ ret = Ret("init", 0, "", "", TRUE)
    /\ last_refresh_at = Epoch
    /\ cache_file = <<>>
    /\ state_file = <<>>
    /\ accounts_file = <<>>
    /\ OthersAtRest

\* ------------------------------------------------------------- restart
\* _load_candidates_cache: the candidate list and the refresh time come from
\* the cache file when it holds at least one item
LoadCandidatesCache(file) ==
    IF file # <<>> /\ file[1].items # <<>>
    THEN [candidates |-> file[1].items, last_refresh_at |-> file[1].refreshed_at]
    ELSE [candidates |-> <<>>, last_refresh_at |-> Epoch]

\* Faulty variant of _load_runtime_state: the active strategy id of the file
\* is ignored.
LoadRuntimeStateDefaultActive(file, t) ==
    IF file = <<>>
    THEN [drafts |-> <<>>, draft_cache |-> EmptyMap, queue |-> <<>>,
          audit |-> <<>>, strategies |-> InitStrategies, active_strategy_id |-> 0]
    ELSE [file[1] EXCEPT !.active_strategy_id = 0,
                         !.draft_cache = CleanupDraftCache(@, file[1].drafts, t)]

\* _load_runtime_state on top of _init_default_strategy and
\* _init_default_accounts: the strategies of the file replace the default
\* store only when there is at least one, the active id only when it names
\* a strategy of the resulting store; _cleanup_draft_cache runs last.
LoadRuntimeState(file, t) ==
    IF file = <<>>
    THEN [drafts |-> <<>>, draft_cache |-> EmptyMap, queue |-> <<>>,
          audit |-> <<>>, strategies |-> InitStrategies, active_strategy_id |-> 0]
    ELSE LET saved == file[1]
             loaded_strategies ==
                 IF saved.strategies # <<>> THEN saved.strategies ELSE InitStrategies
         IN [drafts |-> saved.drafts,
             draft_cache |-> CleanupDraftCache(saved.draft_cache, saved.drafts, t),
             queue |-> saved.queue,
             audit |-> saved.audit,
             strategies |-> loaded_strategies,
             active_strategy_id |->
                 IF saved.active_strategy_id \in StrategyIds(loaded_strategies)
                 THEN saved.active_strategy_id ELSE 0]

\* _load_accounts_state on top of _init_default_accounts: a channel's saved
\* accounts replace the constructed ones only when the saved list is not
\* empty; _refresh_account_runtime_fields then marks one default per channel.
LoadAccountsState(file) ==
    [c \in SUPPORTED_CHANNELS |->
        MarkSingleDefault(IF file # <<>> /\ file[1][c] # <<>>
                          THEN file[1][c] ELSE InitAccounts[c])]

\* A fresh instance constructed against the same three files, in the same
\* environment (publishers, LLM switch), the previous instance gone with
\* whatever call it was running.
Restart ==
    LET cache == LoadCandidatesCache(cache_file)
        runtime == LoadRuntimeState(state_file, now)
    IN /\ candidates' = cache.candidates
       /\ last_refresh_at' = cache.last_refresh_at
       /\ drafts' = runtime.drafts
       /\ draft_cache' = runtime.draft_cache
       /\ queue' = runtime.queue
       /\ audit' = runtime.audit
       /\ strategies' = runtime.strategies
       /\ active_strategy_id' = runtime.active_strategy_id
       /\ accounts' = LoadAccountsState(accounts_file)
       /\ sweep' = NoSweep
       /\ ret' = Ret("init", 0, "", "", TRUE)
       /\ UNCHANGED <<now, next_account, publishers, llm_enabled, cache_file,
                      state_file, accounts_file>>
       /\ OthersUntouched

\* ------------------------------------------------ strategy specification
InitStrategy ==
    /\ InitService
    /\ publishers = {}
    /\ llm_enabled = FALSE

NextStrategy ==
    \/ \E p \in StrategyPayloads : UpdateActiveConfig(p)
    \/ \E b \in StrategyIdInputs \cup {NoStrategy}, p \in StrategyPayloads,
          n \in StrategyPool : CreateStrategy(b, p, n)
    \/ \E id \in StrategyIdInputs, p \in StrategyPayloads : UpdateStrategy(id, p)
    \/ \E id \in StrategyIdInputs : DeleteStrategy(id)
    \/ \E id \in StrategyIdInputs : ActivateStrategy(id)

SpecStrategy == InitStrategy /\ [][NextStrategy]_vars

\* --------------------------------------------------- queue specification
\* The service constructed against a runtime-state file that holds one draft
\* bundle, generated for the channels "x" and "github" in Polish.
LoadedDrafts ==
    <<[draft_id |-> 1, candidate_id |-> 1, campaign_id |-> "",
       variants |-> <<[channel |-> "x", language |-> "pl", account_id |-> "",
                       content |-> <<"Post">>],
                      [channel |-> "github", language |-> "pl", account_id |-> "",
                       content |-> <<"Post">>]>>]>>

InitQueue ==
    /\ now = 0
    /\ strategies = InitStrategies
    /\ active_strategy_id = 0
    /\ accounts = InitAccounts
    /\ next_account = 1
    /\ candidates = SampleCandidates
    /\ drafts = LoadedDrafts
    /\ draft_cache = EmptyMap
    /\ queue = <<>>
    /\ audit = <<>>
    /\ sweep = NoSweep
    /\ ret = Ret("init", 0, "", "", TRUE)
    /\ publishers \in {{}, {"github"}}
    /\ llm_enabled = FALSE
    /\ last_refresh_at = 0
    /\ cache_file = <<[refreshed_at |-> 0, items |-> candidates]>>
    /\ state_file = <<RuntimeState>>
    /\ accounts_file = <<>>
    /\ OthersAtRest

\* whether publish_queue_item reaches a publish_markdown call, whose outcome
\* is then the connector's to choose
ConnectorCalled(item_id, confirm_publish) ==
    /\ PublishGate(item_id, confirm_publish) = ""
    /\ Dispatch(queue[item_id].target_channel, TRUE).connector_called

\* queue_draft requests: channel, scheduled_at, publish_mode
QueueRequests ==
    {<<"x", 1, "auto">>, <<"github", 1, "auto">>, <<"github", 1, "manual">>,
     <<"x", NoTime, "auto">>}
QueueItemInputs == 1..MaxQueue

NextQueue ==
    \/ Tick(MaxTime)
    \/ \E r \in QueueRequests : QueueDraft(1, r[1], "", "", r[2], r[3])
    \/ \E i \in QueueItemInputs, confirm \in BOOLEAN, ok \in BOOLEAN :
          /\ ~ok => ConnectorCalled(i, confirm)
          /\ PublishQueueItem(i, confirm, ok)
    \/ SweepCollect
    \/ \E ok \in BOOLEAN :
          /\ sweep.pc = "publishing"
          /\ ~ok => ConnectorCalled(Head(sweep.due), TRUE)
          /\ SweepPublish(ok)

SpecQueue == InitQueue /\ [][NextQueue]_vars

\* ------------------------------------------------- accounts specification
\* queue_draft and publish_queue_item against accounts that get deleted
AccountDraftIds == {1, 2}
AccountChannels == SUPPORTED_CHANNELS
AccountIdInputs == {"", "ghost", DefaultAccountName("github")}

NextAccounts ==
    \/ \E d \in AccountDraftIds, c \in AccountChannels, a \in AccountIdInputs :
          QueueDraft(d, c, "", a, NoTime, "manual")
    \/ \E i \in QueueItemInputs, ok \in BOOLEAN :
          /\ ~ok => ConnectorCalled(i, TRUE)
          /\ PublishQueueItem(i, TRUE, ok)
    \/ \E c \in DefaultAccountChannels, a \in AccountIdInputs :
          DeleteChannelAccount(c, a)

SpecAccounts == InitQueue /\ [][NextAccounts]_vars

\* --------------------------------------------------- draft specification
\* generate_draft against a candidate list loaded from the candidates cache
\* file and refreshed from the live sources
DraftRequests ==
    {[candidate_id |-> 1, channels |-> <<"x", "github">>, languages |-> <<"pl">>,
      tone |-> NoneValue, campaign_id |-> NoneValue],
     [candidate_id |-> 1, channels |-> <<"x", "github">>, languages |-> <<"pl">>,
      tone |-> "", campaign_id |-> ""],
     [candidate_id |-> 1, channels |-> <<"x">>, languages |-> <<"pl", "en">>,
      tone |-> "expert", campaign_id |-> "launch"]}

LiveItemSets == {<<>>, <<SampleRawItems[2]>>}

InitDraft ==
    /\ now = 0
    /\ strategies = InitStrategies
    /\ active_strategy_id = 0
    /\ accounts = InitAccounts
    /\ next_account = 1
    /\ candidates = SampleCandidates
    /\ drafts = <<>>
    /\ draft_cache = EmptyMap
    /\ queue = <<>>
    /\ audit = <<>>
    /\ sweep = NoSweep
    /\ ret = Ret("init", 0, "", "", TRUE)
    /\ publishers = {}
    /\ llm_enabled \in BOOLEAN
    /\ last_refresh_at = 0
    /\ cache_file = <<[refreshed_at |-> 0, items |-> candidates]>>
    /\ state_file = <<>>
    /\ accounts_file = <<>>
    /\ OthersAtRest

NextDraft ==
    \/ Tick(MaxDraftTime)
    \/ \E req \in DraftRequests, refresh \in BOOLEAN :
          \E fails \in LlmFailures(req) : GenerateDraft(req, refresh, fails)
    \/ \E live \in LiveItemSets : ForceRefresh(live)

SpecDraft == InitDraft /\ [][NextDraft]_vars

\* ---------------------------------------------- account CRUD specification
\* create, update, delete and activate of channel accounts and credential
\* profiles on the channels "devto" (no account at construction) and
\* "github" (one default account)
CrudChannels == {"devto", "github"}

CrudAccountIds ==
    {AccountName(c, n) : c \in CrudChannels, n \in 1..MaxNewAccounts}
        \cup {DefaultAccountName("github"), "ghost"}

CreatePayloads ==
    [enabled : BOOLEAN, is_default : BOOLEAN, role : {"primary"},
     supports_account_id : {""}]
    \cup [enabled : {TRUE}, is_default : {FALSE}, role : {"supporting"},
          supports_account_id : {"", "ghost", AccountName("devto", 1),
                                 AccountName("devto", 2)}]

UpdatePayloads ==
    {[display_name |-> <<>>, enabled |-> <<FALSE>>, is_default |-> <<>>],
     [display_name |-> <<>>, enabled |-> <<TRUE>>, is_default |-> <<TRUE>>],
     [display_name |-> <<>>, enabled |-> <<>>, is_default |-> <<FALSE>>]}

ProfilePayloads ==
    {[role |-> "supporting_brand", supports_profile_id |-> "", enabled |-> <<>>,
      is_default |-> <<>>],
     [role |-> "supporting_brand", supports_profile_id |-> AccountName("devto", 2),
      enabled |-> <<>>, is_default |-> <<>>],
     [role |-> "primary_brand", supports_profile_id |-> "", enabled |-> <<FALSE>>,
      is_default |-> <<TRUE>>]}

NextCrud ==
    \/ \E c \in CrudChannels, p \in CreatePayloads : CreateChannelAccount(c, p)
    \/ \E c \in CrudChannels, a \in CrudAccountIds, p \in UpdatePayloads :
          UpdateChannelAccount(c, a, p)
    \/ \E c \in CrudChannels, a \in CrudAccountIds : DeleteChannelAccount(c, a)
    \/ \E c \in CrudChannels, a \in CrudAccountIds : ActivateChannelAccount(c, a)
    \/ \E a \in CrudAccountIds, p \in ProfilePayloads : UpdateCredentialProfile(a, p)
    \/ \E a \in CrudAccountIds : ActivateCredentialProfile(a)

SpecCrud == InitStrategy /\ [][NextCrud]_vars

\* --------------------------------------------------- restart specification
\* queue and strategy operations interleaved with restarts of the service
RestartStrategyPayloads == {[NoChange EXCEPT !.discovery_mode = "live"]}

RestartQueueRequests == {"x", "github"}

RestartStrategyIds == {0, 1}

NextRestart ==
    \/ \E c \in RestartQueueRequests : QueueDraft(1, c, "", "", NoTime, "manual")
    \/ \E i \in QueueItemInputs, ok \in BOOLEAN :
          /\ ~ok => ConnectorCalled(i, TRUE)
          /\ PublishQueueItem(i, TRUE, ok)
    \/ \E p \in RestartStrategyPayloads : CreateStrategy(NoStrategy, p, 1)
    \/ \E id \in RestartStrategyIds : DeleteStrategy(id)
    \/ \E id \in RestartStrategyIds : ActivateStrategy(id)
    \/ Restart

SpecRestart == InitQueue /\ [][NextRestart]_vars

\* account operations interleaved with restarts of the service
NextCrudRestart ==
    \/ NextCrud
    \/ Restart

SpecCrudRestart == InitStrategy /\ [][NextCrudRestart]_vars

\* ------------------------------------------------- candidate specification
\* list_candidates on a fresh service whose live sources return nothing or
\* two items of equal score, under strategies of different modes, limits,
\* minimum scores and keywords, interleaved with restarts
MaxCacheTime == 2

LiveRawItems ==
    <<[id |-> 7, source |-> "arxiv",
       url |-> [base |-> <<"https://arxiv.org/abs/1">>, query |-> <<>>, fragment |-> ""],
       topic |-> <<"AI", " ", "agent">>, summary |-> <<"memory">>,
       language |-> <<"EN">>, age_minutes |-> 1500],
      [id |-> 8, source |-> "hn",
       url |-> [base |-> <<"https://news.ycombinator.com/item">>,
                query |-> <<<< <<"id">>, "8" >>>>, fragment |-> ""],
       topic |-> <<"LLM", " ", "routing">>, summary |-> <<"module">>,
       language |-> <<"de">>, age_minutes |-> 2000]>>

CandidateLiveItems == {<<>>, LiveRawItems}

CandidatePayloads ==
    {[NoChange EXCEPT !.discovery_mode = "live"],
     [NoChange EXCEPT !.limit = 1, !.min_score = 0],
     [NoChange EXCEPT !.topic_keywords = <<{"ai"}>>]}

\* list_candidates requests: channel, lang, limit, min_score
ListRequests ==
    {<<NoChannel, "", 20, NoScore>>, <<NoChannel, "en", 1, 0>>,
     <<(<<"x">>), "", 20, 0>>, <<(<<"github">>), "", 20, 0>>,
     <<(<<"devto">>), "other", 20, 0>>}

NextCandidates ==
    \/ Tick(MaxCacheTime)
    \/ \E r \in ListRequests, live \in CandidateLiveItems :
          ListCandidates(r[1], r[2], r[3], r[4], live)
    \/ \E p \in CandidatePayloads : UpdateActiveConfig(p)
    \/ Restart

SpecCandidates == InitStrategy /\ [][NextCandidates]_vars

\* --------------------------------------------------- ranking specification
\* force_refresh with batches of raw items that share URLs up to tracking
\* parameters, topics up to case, and scores up to the age
MaxBatch == 2

RawItem(id, query, topic, summary, age_minutes) ==
    [id |-> id, source |-> "rss",
     url |-> [base |-> <<"https://example.org/post">>, query |-> query, fragment |-> ""],
     topic |-> topic, summary |-> summary, language |-> <<"en">>,
     age_minutes |-> age_minutes]

RawPool ==
    {RawItem(1, <<<< <<"utm_", "source">>, "weekly" >>>>, <<"AI">>, <<"agent">>, 100),
     RawItem(2, <<<< <<"ref">>, "feed" >>>>, <<" ", "ai">>, <<"agent">>, 50),
     RawItem(3, <<>>, <<"AI">>, <<"agent">>, 1500),
     RawItem(4, <<<< <<"gclid">>, "g" >>>>, <<"AI">>, <<"agent">>, 2000),
     RawItem(5, <<<< <<"id">>, "1" >>>>, <<"AI">>, <<"agent">>, 100),
     RawItem(6, <<>>, <<"ai", "|", "agent">>, <<"llm">>, 100),
     RawItem(7, <<>>, <<"ai">>, <<"agent", "|", "llm">>, 100)}

RawBatches == UNION {[1..n -> RawPool] : n \in 0..MaxBatch}

NextRank ==
    \/ Tick(MaxTime)
    \/ \E batch \in RawBatches : ForceRefresh(batch)

SpecRank == InitStrategy /\ [][NextRank]_vars

\* -------------------------------------------------- variants specification
\* generate_draft for channel "devto" after a primary and a supporting
\* account were created there
VariantAccountPayloads ==
    {[enabled |-> TRUE, is_default |-> TRUE, role |-> "primary",
      supports_account_id |-> ""],
     [enabled |-> TRUE, is_default |-> FALSE, role |-> "supporting",
      supports_account_id |-> AccountName("devto", 1)]}

VariantRequests ==
    {[candidate_id |-> 1, channels |-> <<"devto">>, languages |-> <<"pl", "en">>,
      tone |-> NoneValue, campaign_id |-> NoneValue],
     [candidate_id |-> 1, channels |-> <<"devto", "devto">>, languages |-> <<"en">>,
      tone |-> "short", campaign_id |-> NoneValue]}

NextVariants ==
    \/ \E p \in VariantAccountPayloads : CreateChannelAccount("devto", p)
    \/ \E req \in VariantRequests, refresh \in BOOLEAN :
          \E fails \in LlmFailures(req) : GenerateDraft(req, refresh, fails)

SpecVariants == InitDraft /\ [][NextVariants]_vars

\* ================================================================ claims

\* C10: after any sequence of create_strategy, update_strategy,
\* update_active_config, delete_strategy and activate_strategy calls,
\* successful or failing, exactly one strategy is active: the active
\* strategy id names exactly one strategy of the store.
C10_OneActiveStrategy ==
    Cardinality({i \in DOMAIN strategies : strategies[i].id = active_strategy_id}) = 1

\* the active strategy ("default", never re-activated) has just been deleted
C10_Witness ==
    /\ ret.op = "delete_strategy" /\ ret.err = "" /\ ret.id = 0
    /\ \A i \in DOMAIN audit : audit[i].action # "strategy.activate"

\* a step of a publish_queue_item call on item i with confirm_publish=true,
\* made by a client or by the scheduler's loop
ManualPublishStep(i) == \E ok \in BOOLEAN : PublishQueueItem(i, TRUE, ok)

SweepPublishStep(i) ==
    /\ sweep.pc = "publishing"
    /\ Head(sweep.due) = i
    /\ \E ok \in BOOLEAN : SweepPublish(ok)

\* C1: once an item is published it stays published in every later state,
\* and every later publish_queue_item(confirm_publish=true) call on it fails
\* with queue_item_already_published: a client's call raises it, the
\* scheduler's call raises it too (swallowed: nothing audited, not counted).
C1_Step ==
    \A i \in DOMAIN queue :
        queue[i].status = "published" =>
            /\ i \in DOMAIN queue'
            /\ queue'[i].status = "published"
            /\ ManualPublishStep(i) =>
                   /\ ret'.err = "queue_item_already_published"
                   /\ audit' = audit
            /\ SweepPublishStep(i) =>
                   /\ audit' = audit
                   /\ sweep'.processed = sweep.processed

C1_PublishedIsFinal == [][C1_Step]_vars

\* a second publish of a published item has been rejected
C1_Witness ==
    /\ ret.op = "publish_queue_item"
    /\ ret.err = "queue_item_already_published"
    /\ queue[ret.id].status = "published"

\* C2 as claimed: the only status changes of a queue item are
\* queued -> published and queued -> failed.
C2_OnlyFromQueued ==
    [][\A i \in DOMAIN queue :
          /\ i \in DOMAIN queue'
          /\ queue'[i].status # queue[i].status =>
                /\ queue[i].status = "queued"
                /\ queue'[i].status \in {"published", "failed"}]_vars

\* C2 as amended: an item is created queued; its status changes only
\* queued -> published, queued -> failed or failed -> published (a retry);
\* published never changes.
C2_Transitions ==
    [][/\ \A i \in DOMAIN queue' \ DOMAIN queue : queue'[i].status = "queued"
       /\ \A i \in DOMAIN queue :
             /\ i \in DOMAIN queue'
             /\ queue'[i].status # queue[i].status =>
                   <<queue[i].status, queue'[i].status>> \in
                       {<<"queued", "published">>, <<"queued", "failed">>,
                        <<"failed", "published">>}]_vars

\* an item that failed once is published now
C2_Witness ==
    \E i \in DOMAIN queue :
        /\ queue[i].status = "published"
        /\ \E k \in DOMAIN audit :
              /\ audit[k].action = "queue.publish"
              /\ audit[k].ref = i
              /\ audit[k].status = "failed"

\* C3: publish_queue_item with confirm_publish=false on an existing item
\* fails with confirm_publish_required whatever the item's status and
\* changes neither the queue nor the audit log nor the accounts.
C3_ConfirmRequired ==
    [][\A i \in DOMAIN queue :
          PublishQueueItem(i, FALSE, TRUE) =>
              /\ ret'.err = "confirm_publish_required"
              /\ queue' = queue
              /\ audit' = audit
              /\ accounts' = accounts]_vars

\* an unconfirmed publish of a published item has been rejected
C3_Witness ==
    /\ ret.op = "publish_queue_item"
    /\ ret.err = "confirm_publish_required"
    /\ ret.id \in DOMAIN queue
    /\ queue[ret.id].status = "published"

\* C4: every publish_queue_item call that passes the gates appends exactly
\* one audit entry, with action queue.publish and naming the item, whichever
\* branch runs and whatever the outcome.
C4_Step ==
    \A i \in DOMAIN queue :
        (queue[i].status # "published" /\ (ManualPublishStep(i) \/ SweepPublishStep(i))) =>
            /\ Len(audit') = Len(audit) + 1
            /\ SubSeq(audit', 1, Len(audit)) = audit
            /\ audit'[Len(audit')].action = "queue.publish"
            /\ audit'[Len(audit')].ref = i
            /\ audit'[Len(audit')].status =
                  IF queue'[i].status = "failed" THEN "failed"
                  ELSE IF queue[i].target_channel = "x" THEN "manual" ELSE "published"

C4_OneAuditEntry == [][C4_Step]_vars

\* the scheduler's attempt on an item whose publisher is not configured has
\* been audited as failed
C4_Witness ==
    \E k \in DOMAIN audit :
        /\ audit[k].action = "queue.publish"
        /\ audit[k].actor = "system:scheduler"
        /\ audit[k].detail = "not_configured"
        /\ queue[audit[k].ref].status = "failed"

\* an account's publish counters, zero for an id the channel does not hold
SuccessfulPublishes(accs, id) ==
    IF id \in AccountIds(accs) THEN GetAccount(accs, id).successful_publishes ELSE 0

FailedPublishes(accs, id) ==
    IF id \in AccountIds(accs) THEN GetAccount(accs, id).failed_publishes ELSE 0

\* a publish_queue_item call on item i passes the gates in this step
GatedPublishStep(i) ==
    /\ queue[i].status # "published"
    /\ ManualPublishStep(i) \/ SweepPublishStep(i)

\* the bookkeeping of a publish attempt on item i: the bound account gets
\* the outcome as last_publish_status and one counter, the outcome's, goes
\* up by one; every other account stays as it is
BookkeepingDone(i) ==
    LET c == queue[i].target_channel
        a == queue[i].account_id
        outcome == queue'[i].status
    IN /\ a \in AccountIds(accounts'[c])
       /\ GetAccount(accounts'[c], a).last_publish_status = outcome
       /\ SuccessfulPublishes(accounts'[c], a) =
             SuccessfulPublishes(accounts[c], a) + (IF outcome = "published" THEN 1 ELSE 0)
       /\ FailedPublishes(accounts'[c], a) =
             FailedPublishes(accounts[c], a) + (IF outcome = "failed" THEN 1 ELSE 0)
       /\ \A c2 \in SUPPORTED_CHANNELS :
             /\ DOMAIN accounts'[c2] = DOMAIN accounts[c2]
             /\ \A k \in DOMAIN accounts[c2] :
                   (c2 # c \/ accounts[c2][k].account_id # a) =>
                       accounts'[c2][k] = accounts[c2][k]

\* C5 as claimed: every publish attempt that passes the gates on an item
\* with a bound account increments exactly one counter of that account, the
\* outcome's, and sets its last_publish_status; no other account changes.
C5_AlwaysCounted ==
    [][\A i \in DOMAIN queue :
          (GatedPublishStep(i) /\ queue[i].account_id # "") => BookkeepingDone(i)]_vars

\* C5 as amended: the bookkeeping is done when the bound account is still
\* in the channel's account store; when it has been deleted since the item
\* was queued, no account changes.
C5_Bookkeeping ==
    [][\A i \in DOMAIN queue :
          (GatedPublishStep(i) /\ queue[i].account_id # "") =>
              IF queue[i].account_id \in AccountIds(accounts[queue[i].target_channel])
              THEN BookkeepingDone(i)
              ELSE accounts' = accounts]_vars

\* a failed attempt has been counted on its account
C5_Witness ==
    \E i \in DOMAIN queue :
        /\ queue[i].status = "failed"
        /\ queue[i].account_id # ""
        /\ FailedPublishes(accounts[queue[i].target_channel], queue[i].account_id) = 1
        /\ GetAccount(accounts[queue[i].target_channel],
                      queue[i].account_id).last_publish_status = "failed"

\* the draft.generate entry a cache hit on bundle d appends
CachedAudited(d) ==
    /\ Len(audit') = Len(audit) + 1
    /\ SubSeq(audit', 1, Len(audit)) = audit
    /\ audit'[Len(audit')].action = "draft.generate"
    /\ audit'[Len(audit')].status = "cached"
    /\ audit'[Len(audit')].ref = d

\* C6 as claimed: a generate_draft call without refresh, made within the
\* draft-cache TTL of an earlier successful call without refresh that had
\* the same arguments, returns the earlier call's draft_id, creates no
\* bundle and records a draft.generate entry with status cached.  (Stated
\* for two calls with no other call between them.)
C6_SameWithinTtlOfFirstCall ==
    [][\A req \in DraftRequests :
          (/\ ret.op = "generate_draft"
           /\ ret.err = ""
           /\ ret.call[1] = req
           /\ ~ret.call[2]
           /\ now - ret.call[3] <= DraftCacheTtl
           /\ GenerateDraft(req, FALSE, <<>>)) =>
              /\ ret'.err = ""
              /\ ret'.id = ret.id
              /\ drafts' = drafts
              /\ CachedAudited(ret.id)]_vars

\* C6 as amended: the TTL runs from the generation of the bundle, not from
\* the call that last returned it.  (1) A successful generate_draft call
\* leaves the cache entry of its arguments pointing at the bundle it
\* returned, generated no later than the call.  (2) Only a generate_draft
\* call with the same cache key replaces or drops a cache entry that has
\* not outlived the TTL.  (3) A call without refresh for a listed candidate
\* whose cache entry is no older than the TTL returns the entry's draft_id,
\* creates no bundle and records a draft.generate entry with status cached.
C6_Step ==
    /\ \A req \in DraftRequests, refresh \in BOOLEAN :
          ((\E fails \in LlmFailures(req) : GenerateDraft(req, refresh, fails))
              /\ ret'.err = "") =>
              /\ DraftCacheKey(req) \in DOMAIN draft_cache'
              /\ draft_cache'[DraftCacheKey(req)].draft_id = ret'.id
              /\ draft_cache'[DraftCacheKey(req)].generated_at <= now
              /\ ret'.id \in DOMAIN drafts'
    /\ \A key \in DOMAIN draft_cache :
          (/\ now - draft_cache[key].generated_at <= DraftCacheTtl
           /\ ~ \E req \in DraftRequests, refresh \in BOOLEAN :
                  /\ DraftCacheKey(req) = key
                  /\ \E fails \in LlmFailures(req) : GenerateDraft(req, refresh, fails)) =>
              /\ key \in DOMAIN draft_cache'
              /\ draft_cache'[key] = draft_cache[key]
    /\ \A req \in DraftRequests :
          (/\ GenerateDraft(req, FALSE, <<>>)
           /\ req.candidate_id \in CandidateIds(candidates)
           /\ DraftCacheKey(req) \in DOMAIN draft_cache
           /\ now - draft_cache[DraftCacheKey(req)].generated_at <= DraftCacheTtl) =>
              /\ ret'.err = ""
              /\ ret'.id = draft_cache[DraftCacheKey(req)].draft_id
              /\ drafts' = drafts
              /\ draft_cache' = draft_cache
              /\ CachedAudited(ret'.id)

C6_CachedWithinTtlOfGeneration == [][C6_Step]_vars

\* a call made exactly one TTL after the generation has hit the cache
C6_Witness ==
    /\ ret.op = "generate_draft"
    /\ ret.err = ""
    /\ ~ret.call[2]
    /\ DraftCacheKey(ret.call[1]) \in DOMAIN draft_cache
    /\ draft_cache[DraftCacheKey(ret.call[1])].draft_id = ret.id
    /\ now - draft_cache[DraftCacheKey(ret.call[1])].generated_at = DraftCacheTtl
    /\ ret.call[3] = now
    /\ audit # <<>>
    /\ audit[Len(audit)].status = "cached"
    /\ audit[Len(audit)].ref = ret.id

\* a queue_draft call with an explicit account id the channel does not hold
UnknownAccountQueueDraft(d, c, a) ==
    /\ a # ""
    /\ a \notin AccountIds(accounts[c])
    /\ QueueDraft(d, c, "", a, NoTime, "manual")

\* C7 as claimed: queue_draft with an explicit account_id that is not among
\* the target channel's accounts fails with account_not_found and leaves the
\* queue and the audit log as they were.
C7_AlwaysAccountNotFound ==
    [][\A d \in AccountDraftIds, c \in AccountChannels, a \in AccountIdInputs :
          UnknownAccountQueueDraft(d, c, a) =>
              /\ ret'.err = "account_not_found"
              /\ queue' = queue
              /\ audit' = audit]_vars

\* C7 as amended: such a call always fails and leaves the queue and the
\* audit log as they were; the error is account_not_found when the draft
\* exists and has a variant for the target channel, draft_not_found when the
\* draft is unknown and draft_variant_not_found when it has no such variant.
C7_UnknownAccountRejected ==
    [][\A d \in AccountDraftIds, c \in AccountChannels, a \in AccountIdInputs :
          UnknownAccountQueueDraft(d, c, a) =>
              /\ ret'.err =
                    IF d \notin DOMAIN drafts THEN "draft_not_found"
                    ELSE IF \A v \in Range(drafts[d].variants) : v.channel # c
                    THEN "draft_variant_not_found"
                    ELSE "account_not_found"
              /\ queue' = queue
              /\ audit' = audit]_vars

\* an unknown explicit account id has been rejected
C7_Witness ==
    /\ ret.op = "queue_draft"
    /\ ret.err = "account_not_found"
    /\ queue = <<>>

\* C8: a sweep collects exactly the items that are queued, auto and
\* scheduled at or before its clock reading; each of its publish turns
\* touches the collected item it is at and nothing else (every other item,
\* so every item that was not due, keeps its status and updated_at, and any
\* audit entry written is the scheduler's for that item); a collected item
\* on channel x is published by its turn.
C8_Step ==
    sweep' # sweep =>
        IF sweep.pc = "idle"
        THEN /\ queue' = queue
             /\ audit' = audit
             /\ Range(sweep'.due) =
                   {i \in DOMAIN queue :
                       /\ queue[i].status = "queued"
                       /\ queue[i].publish_mode = "auto"
                       /\ queue[i].scheduled_at # NoTime
                       /\ queue[i].scheduled_at <= now}
        ELSE LET i == Head(sweep.due) IN
             /\ DOMAIN queue' = DOMAIN queue
             /\ \A j \in DOMAIN queue : j # i => queue'[j] = queue[j]
             /\ \/ audit' = audit
                \/ /\ Len(audit') = Len(audit) + 1
                   /\ SubSeq(audit', 1, Len(audit)) = audit
                   /\ audit'[Len(audit')].ref = i
                   /\ audit'[Len(audit')].actor = "system:scheduler"
             /\ queue[i].target_channel = "x" => queue'[i].status = "published"

C8_SweepTouchesDueOnly == [][C8_Step]_vars

\* the sweep has published a due x item while a manual item stayed queued
C8_Witness ==
    /\ sweep.pc = "idle"
    /\ \E i, j \in DOMAIN queue :
          /\ queue[i].target_channel = "x"
          /\ queue[i].status = "published"
          /\ \E k \in DOMAIN audit :
                audit[k].ref = i /\ audit[k].actor = "system:scheduler"
          /\ queue[j].publish_mode = "manual"
          /\ queue[j].scheduled_at # NoTime
          /\ queue[j].scheduled_at <= sweep.at
          /\ queue[j].status = "queued"
          /\ queue[j].updated_at = queue[j].created_at

\* C9: process_scheduled_queue counts the due items whose publish attempt
\* succeeded: a turn of its loop adds one to the count exactly when it
\* moved the item it is at to published.
C9_CountsSuccesses ==
    [][(sweep.pc = "publishing" /\ sweep' # sweep) =>
          LET i == Head(sweep.due) IN
          (sweep'.processed = sweep.processed + 1) <=>
              (queue[i].status # "published" /\ queue'[i].status = "published")]_vars

\* C11: the strategy store never becomes empty: delete_strategy on the only
\* remaining strategy fails with last_strategy_cannot_be_deleted,
\* delete_strategy on an unknown id fails with strategy_not_found, and both
\* leave the strategy set and the active strategy id as they were.
C11_Step ==
    /\ strategies' # <<>>
    /\ \A id \in StrategyIdInputs :
          DeleteStrategy(id) =>
              /\ id \notin StrategyIds(strategies) =>
                    /\ ret'.err = "strategy_not_found"
                    /\ strategies' = strategies
                    /\ active_strategy_id' = active_strategy_id
              /\ (id \in StrategyIds(strategies) /\ Len(strategies) = 1) =>
                    /\ ret'.err = "last_strategy_cannot_be_deleted"
                    /\ strategies' = strategies
                    /\ active_strategy_id' = active_strategy_id

C11_StoreNeverEmpty == [][C11_Step]_vars

\* the deletion of the only strategy left after an earlier deletion has
\* been refused
C11_Witness ==
    /\ ret.op = "delete_strategy"
    /\ ret.err = "last_strategy_cannot_be_deleted"
    /\ Len(strategies) = 1
    /\ \E i \in DOMAIN audit : audit[i].action = "strategy.delete"

\* C12: after every account mutation each channel that has at least one
\* enabled account has exactly one account with is_default = true, and
\* that default account is enabled.
C12_OneEnabledDefault ==
    \A c \in SUPPORTED_CHANNELS :
        (\E i \in DOMAIN accounts[c] : accounts[c][i].enabled) =>
            /\ Cardinality({i \in DOMAIN accounts[c] : accounts[c][i].is_default}) = 1
            /\ \A i \in DOMAIN accounts[c] :
                  accounts[c][i].is_default => accounts[c][i].enabled

\* C13: after any sequence of account create, update and delete operations
\* every account with role supporting has a supports_account_id that names
\* an existing account with role primary in the same channel.
C13_SupportingReferencesPrimary ==
    \A c \in SUPPORTED_CHANNELS :
        \A i \in DOMAIN accounts[c] :
            accounts[c][i].role = "supporting" =>
                /\ accounts[c][i].supports_account_id \in AccountIds(accounts[c])
                /\ GetAccount(accounts[c], accounts[c][i].supports_account_id).role
                      = "primary"

\* ------------------------------------------------------------------- C14
\* C14: a fresh instance constructed against the runtime-state file has the
\* queue (ids, statuses and all other fields), the audit log in its order,
\* the strategy set and the active strategy id that the previous instance
\* had when it stopped.
C14_Step ==
    Restart =>
        /\ queue' = queue
        /\ audit' = audit
        /\ strategies' = strategies
        /\ active_strategy_id' = active_strategy_id

C14_RuntimeStateSurvivesRestart == [][C14_Step]_vars

\* a restarted instance holds a published item, its audit entries and a
\* second strategy, all of them read back from the file
C14_Witness ==
    /\ ret.op = "init"
    /\ state_file # <<>>
    /\ \E i \in DOMAIN queue : queue[i].status = "published"
    /\ Len(strategies) > 1
    /\ Len(audit) >= 3

\* ------------------------------------------------------------------- C15
\* C15: a fresh instance constructed against the accounts file has, for every
\* channel, the account ids, enabled and is_default flags and publish
\* counters that the previous instance had when it stopped.
C15_Step ==
    Restart => accounts' = accounts

C15_AccountsSurviveRestart == [][C15_Step]_vars
\* ------------------------------------------------------------------- C16
\* the cache TTL of the active strategy
ActiveCacheTtl == ActiveStrategy(strategies, active_strategy_id).cache_ttl_seconds

\* a list_candidates call (whose first statement is
\* refresh_candidates(force=false)) left the list and the refresh time alone
\* and fetched nothing
RefreshWasNoOp ==
    /\ ~ret'.call.fetched
    /\ candidates' = candidates
    /\ last_refresh_at' = last_refresh_at
    /\ cache_file' = cache_file

\* the call made on a non-empty list within the TTL of the last refresh
C16_FreshStep ==
    \A r \in ListRequests, live \in CandidateLiveItems :
        (/\ ListCandidates(r[1], r[2], r[3], r[4], live)
         /\ candidates # <<>>
         /\ now - last_refresh_at <= ActiveCacheTtl)
        => RefreshWasNoOp

\* the call that follows, within the TTL, a list_candidates call that fetched
C16_RepeatedStep ==
    \A r \in ListRequests, live \in CandidateLiveItems :
        (/\ ListCandidates(r[1], r[2], r[3], r[4], live)
         /\ ret.op = "list_candidates"
         /\ ret.call.fetched
         /\ ret.call.refreshed_at = last_refresh_at
         /\ now - last_refresh_at <= ActiveCacheTtl)
        => ~ret'.call.fetched

\* C16 as stated: refresh_candidates(force=false) is a no-op on a non-empty
\* list within the TTL, and of two list_candidates calls within the TTL at
\* most the first one fetches from the external sources.
C16_FetchOncePerTtl == [][C16_FreshStep /\ C16_RepeatedStep]_vars

\* C16, amended: refresh_candidates(force=false) is a no-op on a non-empty
\* list within the TTL, and of two list_candidates calls within the TTL at
\* most the first one fetches, provided its fetch left the list non-empty.
C16_NoOpWhenFresh ==
    [][C16_FreshStep /\ (candidates # <<>> => C16_RepeatedStep)]_vars

\* a list_candidates call later than the refresh, within the TTL, that
\* fetched nothing and returned candidates
C16_Witness ==
    /\ ret.op = "list_candidates"
    /\ ~ret.call.fetched
    /\ ret.call.items # <<>>
    /\ now > last_refresh_at
    /\ now - last_refresh_at <= ActiveCacheTtl

\* ------------------------------------------------------------------- C17
\* C17: list_candidates returns candidates of the list in descending order of
\* score, at most min(limit, strategy.limit) of them, each with a score of at
\* least the caller's min_score (the strategy's when the caller gives none),
\* of the language asked for, and of a source that suits the channel: hn,
\* github or rss for channel x, github or arxiv for channel github.
ListedAsSpecified(call, cands, strategy) ==
    LET items == call.items
        effective_min == IF call.min_score = NoScore THEN strategy.min_score
                         ELSE call.min_score
    IN /\ \A i \in DOMAIN items : \E j \in DOMAIN cands : items[i] = cands[j]
       /\ \A i, j \in DOMAIN items : i < j => items[i].score >= items[j].score
       /\ Len(items) <= call.limit
       /\ Len(items) <= strategy.limit
       /\ \A i \in DOMAIN items :
             /\ items[i].score >= effective_min
             /\ call.lang # "" => items[i].language = call.lang
             /\ call.channel = <<"x">> => items[i].source \in {"hn", "github", "rss"}
             /\ call.channel = <<"github">> => items[i].source \in {"github", "arxiv"}

C17_Step ==
    \A r \in ListRequests, live \in CandidateLiveItems :
        ListCandidates(r[1], r[2], r[3], r[4], live)
        => ListedAsSpecified(ret'.call, candidates',
                             ActiveStrategy(strategies', active_strategy_id'))

C17_ListFilteredSortedCapped == [][C17_Step]_vars

\* a call for channel x that returned a candidate and left out another one
\* of the list, which held an arxiv item
C17_Witness ==
    /\ ret.op = "list_candidates"
    /\ ret.call.channel = <<"x">>
    /\ ret.call.items # <<>>
    /\ \E j \in DOMAIN candidates : candidates[j].source = "arxiv"
\* ------------------------------------------------------------------- C18
\* the dedup key of the claim: canonical URL, lower-cased topic, lower-cased
\* summary, as a triple
KeyTriple(url, topic, summary) == <<CanonicalUrl(url), Lower(Strip(topic)), Lower(Strip(summary))>>

RawKey(raw) == KeyTriple(raw.url, raw.topic, raw.summary)

RawScore(raw) == FinalScore(Strip(raw.topic), Strip(raw.summary), raw.age_minutes)

\* the record of the batch that the claim makes the survivor of a key: of
\* highest score, the first one of these
Survivor(batch, key) ==
    LET same == {i \in DOMAIN batch : RawKey(batch[i]) = key}
        best == {i \in same : \A j \in same : RawScore(batch[j]) <= RawScore(batch[i])}
    IN batch[Min(best)]

RankedAsSpecified(batch, out) ==
    LET keys == {RawKey(batch[i]) : i \in DOMAIN batch}
    IN /\ Len(out) = Cardinality(keys)
       /\ \A key \in keys :
             \E i \in DOMAIN out :
                /\ KeyTriple(out[i].url, out[i].topic, out[i].summary) = key
                /\ out[i].id = Survivor(batch, key).id
                /\ out[i].score = RawScore(Survivor(batch, key))
                /\ out[i].age_minutes = Survivor(batch, key).age_minutes
       /\ \A i, j \in DOMAIN out :
             i < j => \/ out[i].score > out[j].score
                      \/ /\ out[i].score = out[j].score
                         /\ out[i].age_minutes <= out[j].age_minutes

\* C18: for every batch of raw items _normalize_and_rank_candidates returns
\* exactly one candidate per dedup key (canonical URL, lower-cased topic,
\* lower-cased summary), records that differ in tracking parameters only
\* being one key; the candidate of a key is its record of highest score, the
\* first-seen of these; the output is in descending order of score, then
\* ascending order of age_minutes.
C18_Step ==
    \A batch \in RawBatches :
        (ForceRefresh(batch) /\ batch # <<>>) => RankedAsSpecified(batch, candidates')

C18_OneCandidatePerKey == [][C18_Step]_vars
\* ------------------------------------------------------------------- C19
\* C19: every supporting variant of a stored bundle contains the attribution
\* phrase of its language and the URL of the bundle's candidate, both of
\* them letter for letter.
C19_SupportingAttributed ==
    \A d \in DOMAIN drafts :
        \A i \in DOMAIN drafts[d].variants :
            LET v == drafts[d].variants[i] IN
            v.account_id # "" =>
                /\ Contains(v.content, <<AttributionPhrase(v.language)>>)
                /\ Contains(v.content,
                            UrlText(CandidateOf(candidates, drafts[d].candidate_id).url))

\* ------------------------------------------------------------------- C20
\* C20: a bundle has at most one primary variant (no account) for a channel
\* and language, and no two of its supporting variants for a channel and
\* language belong to the same account.
C20_VariantsDistinct ==
    \A d \in DOMAIN drafts :
        \A i, j \in DOMAIN drafts[d].variants :
            LET v == drafts[d].variants[i]
                w == drafts[d].variants[j]
            IN (/\ i # j
                /\ v.channel = w.channel
                /\ v.language = w.language) => v.account_id # w.account_id

\* ---------------------------------------------------- audit specification
\* list(reversed(...))
Reversed(s) == [i \in 1..Len(s) |-> s[Len(s) + 1 - i]]

\* audit_items
AuditItems ==
    /\ ret' = [Ret("audit_items", 0, "", "", TRUE) EXCEPT !.call = Reversed(audit)]
    /\ UNCHANGED <<now, strategies, active_strategy_id, accounts, next_account,
                   publishers, llm_enabled, candidates, drafts, draft_cache, queue,
                   audit, sweep>>
    /\ FilesUntouched

\* the queue operations, the scheduler and strategy activation, with the
\* audit log read at any point, also between two publications of a sweep
AuditStrategyIds == {0, 1}

AuditQueueRequests == {<<"x", 0, "auto">>, <<"github", NoTime, "manual">>}

NextAudit ==
    \/ \E r \in AuditQueueRequests : QueueDraft(1, r[1], "", "", r[2], r[3])
    \/ \E i \in QueueItemInputs, ok \in BOOLEAN :
          /\ ~ok => ConnectorCalled(i, TRUE)
          /\ PublishQueueItem(i, TRUE, ok)
    \/ SweepCollect
    \/ SweepPublish(TRUE)
    \/ \E id \in AuditStrategyIds : ActivateStrategy(id)
    \/ AuditItems

SpecAudit == InitQueue /\ [][NextAudit]_vars

\* C21: the audit log is append-only: every step of every operation leaves
\* the entries already in the log where they were, unmodified (the log
\* before the step is a prefix of the log after it), and audit_items returns
\* the entries newest first: the i-th returned entry is the i-th last of the
\* log.
C21_Step ==
    /\ Len(audit) <= Len(audit')
    /\ \A i \in DOMAIN audit : audit'[i] = audit[i]
    /\ AuditItems =>
          /\ Len(ret'.call) = Len(audit)
          /\ \A i \in DOMAIN audit : ret'.call[Len(audit) + 1 - i] = audit[i]

C21_AuditAppendOnly == [][C21_Step]_vars

\* audit_items has returned a log of three entries that are not all alike
C21_Witness ==
    /\ ret.op = "audit_items"
    /\ Len(ret.call) = 3
    /\ ret.call[1] # ret.call[3]
    /\ ret.call[1] = audit[3]

\* the state a public operation can change
ServiceState ==
    <<strategies, active_strategy_id, accounts, candidates, drafts, draft_cache,
      queue, audit, last_refresh_at>>

\* C22: every public operation that changes the state holds the lock from
\* its start to its return, so the changes of two operations invoked at the
\* same time never interleave: while a call is between its start and its
\* return (here the due-item sweep that list_candidates, queue_items and
\* monitoring_summary run, after it has collected the due ids), a step that
\* is not a step of that call changes nothing of the state.
C22_Step ==
    (sweep.pc = "publishing" /\ sweep' = sweep) => UNCHANGED ServiceState

C22_NoInterleaving == [][C22_Step]_vars

\* ------------------------------------------ publish failure specification
\* Here a text is the sequence of its characters.

\* _add_audit: the longest payload kept whole in an entry's details
PayloadSummaryMax == 220

\* _add_audit: details, the payload stripped and cut
PayloadSummary(payload) ==
    LET stripped == Strip(payload) IN
    IF Len(stripped) > PayloadSummaryMax
    THEN SubSeq(stripped, 1, PayloadSummaryMax) \o <<".", ".", ".">>
    ELSE stripped

\* queue_draft: an item id, "queue-" and ten hex digits
ItemIdText(item_id) ==
    <<"q", "u", "e", "u", "e", "-", "0", "0", "0", "0", "0", "0", "0", "0", "0", ToString(item_id)>>

\* publish_queue_item, the except branch: the audit payload
FailurePayload(item_id, exc) == ItemIdText(item_id) \o <<":">> \o exc

\* publish_queue_item, the except branch: the message of the result
FailureMessage(channel, exc) == <<PublisherSlot(channel), " publish failed: ">> \o exc

\* publish_queue_item by a client with confirm_publish=true when the
\* channel's publish_markdown raises an exception whose text is exc: the
\* call of PublishCall with the texts of the audit entry and of the
\* result kept
PublishQueueItemRaising(item_id, exc) ==
    LET call == PublishCall(item_id, TRUE, "user", FALSE) IN
    /\ ConnectorCalled(item_id, TRUE)
    /\ Len(audit) < MaxAuditQueue
    /\ queue' = call.queue
    /\ audit' = Append(audit,
          AuditEntry("user", "queue.publish", "failed", item_id,
                     PayloadSummary(FailurePayload(item_id, exc))))
    /\ accounts' = call.accounts
    /\ ret' = [call.ret EXCEPT
                  !.call = <<FailureMessage(queue[item_id].target_channel, exc)>>]
    /\ UNCHANGED <<now, strategies, active_strategy_id, next_account, publishers,
                   llm_enabled, candidates, drafts, draft_cache, sweep>>
    /\ PublishSaved(call)

\* exception texts: a short one and an HTTP error body of 210 characters
ShortExceptionText == <<"b", "o", "o", "m">>
LongExceptionText == [i \in 1..210 |-> "e"]
ExceptionTexts == {ShortExceptionText, LongExceptionText}

FailureQueueRequests == {<<"github", NoTime, "manual">>, <<"x", NoTime, "manual">>}

NextPublishFailure ==
    \/ Tick(MaxTime)
    \/ \E r \in FailureQueueRequests : QueueDraft(1, r[1], "", "", r[2], r[3])
    \/ \E i \in QueueItemInputs : PublishQueueItem(i, TRUE, TRUE)
    \/ \E i \in QueueItemInputs, exc \in ExceptionTexts : PublishQueueItemRaising(i, exc)

SpecPublishFailure == InitQueue /\ [][NextPublishFailure]_vars

\* C23: when the channel's publish_markdown raises, publish_queue_item
\* raises nothing: it returns a result with success=false and status
\* "failed" whose message contains the exception text, the item's status
\* becomes failed, and the audit entry of the attempt (the last of the log)
\* contains the exception text as well.
C23_Step ==
    \A i \in QueueItemInputs, exc \in ExceptionTexts :
        PublishQueueItemRaising(i, exc) =>
            /\ ret'.err = ""
            /\ ~ret'.success
            /\ ret'.status = "failed"
            /\ Contains(ret'.call[1], exc)
            /\ queue'[i].status = "failed"
            /\ Len(audit') = Len(audit) + 1
            /\ audit'[Len(audit')].status = "failed"
            /\ Contains(audit'[Len(audit')].detail, exc)

C23_FailureReturnedAndAudited == [][C23_Step]_vars

\* C24: a failed item can be published again: publish_queue_item with
\* confirm_publish=true on an item in status failed raises nothing, runs
\* the dispatch of the item's channel again, and leaves the item published
\* (and returns success) if that dispatch succeeds, failed (and returns
\* success=false) otherwise.
C24_Step ==
    \A i \in DOMAIN queue, ok \in BOOLEAN :
        (queue[i].status = "failed" /\ PublishQueueItem(i, TRUE, ok)) =>
            /\ ret'.err = ""
            /\ queue'[i].status = Dispatch(queue[i].target_channel, ok).status
            /\ queue'[i].status \in {"published", "failed"}
            /\ ret'.success <=> queue'[i].status = "published"
            /\ ret'.status = queue'[i].status
            /\ Len(audit') = Len(audit) + 1

C24_FailedIsRepublishable == [][C24_Step]_vars

\* an item that failed on its first attempt was published by a second one
C24_Witness ==
    \E i \in DOMAIN queue :
        /\ queue[i].status = "published"
        /\ ret.op = "publish_queue_item" /\ ret.id = i /\ ret.success
        /\ \E k \in DOMAIN audit :
              /\ audit[k].action = "queue.publish"
              /\ audit[k].ref = i
              /\ audit[k].status = "failed"

\* C25: publish_queue_item with confirm_publish=true on an item of channel
\* "x" that is not published yet marks the item published without calling
\* a connector and returns success with external_id "manual-<item_id>",
\* whatever publishers are configured.
C25_Step ==
    \A i \in DOMAIN queue, ok \in BOOLEAN :
        (/\ queue[i].target_channel = "x"
         /\ queue[i].status # "published"
         /\ PublishQueueItem(i, TRUE, ok)) =>
            /\ ~ConnectorCalled(i, TRUE)
            /\ queue'[i].status = "published"
            /\ ret'.err = ""
            /\ ret'.success
            /\ ret'.status = "published"
            /\ ret'.call = <<"manual-", i>>

C25_XIsManual == [][C25_Step]_vars

\* an item of channel "x" was published by a client with no publisher
\* configured at all
C25_Witness ==
    /\ ret.op = "publish_queue_item" /\ ret.success
    /\ queue[ret.id].target_channel = "x"
    /\ queue[ret.id].status = "published"
    /\ publishers = {}

\* channel values that no branch of publish_queue_item names
UnconnectedChannels == {"mastodon", ""}

\* a step that publishes item i through its channel's connector, which
\* returns: a client's call or a turn of the scheduler's loop
ConnectorPublishedStep(i) ==
    \/ PublishQueueItem(i, TRUE, TRUE)
    \/ sweep.pc = "publishing" /\ Head(sweep.due) = i /\ SweepPublish(TRUE)

\* C26: there is no silent success.  An item of a channel other than "x"
\* becomes published only by a publish_queue_item call made while a
\* publisher for the channel is configured and whose publish_markdown call
\* returns; a call that passes the gates while the publisher is missing
\* leaves the item failed and returns success=false, and so does the
\* last branch for a channel value that has no connector branch.
C26_Step ==
    /\ \A i \in DOMAIN queue :
          (/\ queue[i].target_channel # "x"
           /\ queue[i].status # "published"
           /\ queue'[i].status = "published") =>
              /\ PublisherSlot(queue[i].target_channel) \in publishers
              /\ ConnectorPublishedStep(i)
    /\ \A i \in DOMAIN queue, ok \in BOOLEAN :
          (/\ queue[i].target_channel # "x"
           /\ queue[i].status # "published"
           /\ PublisherSlot(queue[i].target_channel) \notin publishers
           /\ PublishQueueItem(i, TRUE, ok)) =>
              /\ queue'[i].status = "failed"
              /\ ret'.status = "failed"
              /\ ~ret'.success
              /\ audit'[Len(audit')].status = "failed"
    /\ \A c \in UnconnectedChannels, ok \in BOOLEAN :
          /\ Dispatch(c, ok).status = "failed"
          /\ Dispatch(c, ok).detail = "connector_not_implemented"

C26_NoSilentSuccess == [][C26_Step]_vars

\* with no publisher configured, a client's publish_queue_item call on a
\* github item has returned "failed"
C26_Witness ==
    /\ publishers = {}
    /\ ret.op = "publish_queue_item" /\ ret.err = "" /\ ~ret.success
    /\ queue[ret.id].target_channel = "github"
    /\ queue[ret.id].status = "failed"

\* ---------------------------------------------------- sweep specification
\* Items that are due as soon as they are queued, one of them scheduled
\* with a naive datetime, swept while a client may publish them too.
SweepQueueRequests ==
    {<<"github", 0, "auto">>, <<"x", 0, "auto">>, <<"x", NaiveTime, "auto">>}

NextSweep ==
    \/ \E r \in SweepQueueRequests : QueueDraft(1, r[1], "", "", r[2], r[3])
    \/ \E i \in QueueItemInputs : PublishQueueItem(i, TRUE, TRUE)
    \/ SweepCollect
    \/ \E ok \in BOOLEAN :
          /\ sweep.pc = "publishing"
          /\ ~ok => ConnectorCalled(Head(sweep.due), TRUE)
          /\ SweepPublishCapped(ok, MaxAuditSweep)

SpecSweep == InitQueue /\ [][NextSweep]_vars

\* the scheduler's publish_queue_item call on item i has been made in this
\* step: it raised (the item was published already, nothing changed) or it
\* left the item published or failed and wrote the scheduler's audit entry
SweepAttempted(i) ==
    \/ /\ queue[i].status = "published"
       /\ UNCHANGED <<queue, audit>>
    \/ /\ queue[i].status # "published"
       /\ queue'[i].status \in {"published", "failed"}
       /\ Len(audit') = Len(audit) + 1
       /\ audit'[Len(audit')].actor = "system:scheduler"
       /\ audit'[Len(audit')].ref = i

\* C27: in process_scheduled_queue a failure on one due item does not
\* block the others.  The sweep collects every item that is due; each turn
\* of its loop attempts the first collected id and, whether that attempt
\* published, failed or raised, leaves all the other collected ids to be
\* attempted; the sweep returns only when none is left, and no
\* process_scheduled_queue call ever raises: it returns a count.
C27_Step ==
    /\ (ret' # ret /\ ret'.op = "process_scheduled_queue") => ret'.err = ""
    /\ (sweep.pc = "idle" /\ sweep'.pc = "publishing") =>
          sweep'.due = DueItemIds(now)
    /\ (sweep.pc = "publishing" /\ sweep' # sweep) =>
          /\ SweepAttempted(Head(sweep.due))
          /\ sweep'.due = Tail(sweep.due)
          /\ sweep'.pc = IF Tail(sweep.due) = <<>> THEN "idle" ELSE "publishing"
          /\ sweep'.pc = "idle" =>
                /\ ret'.op = "process_scheduled_queue"
                /\ ret'.err = ""

C27_FailureDoesNotBlock == [][C27_Step]_vars

\* ---------------------------------------------- read calls specification
\* list.sort(key=created_at, reverse=True): newest first, items of the same
\* instant in their order of insertion
NewestFirst(items) ==
    Flatten([k \in 1..(now + 1) |->
                SelectSeq(items, LAMBDA it : it.created_at = now + 1 - k)])

\* (Faulty variant: the queue is listed as it is, without the sweep.)
QueueItemsUnswept(oks) ==
    /\ sweep.pc = "idle"
    /\ ret' = [Ret("queue_items", 0, "", "", TRUE) EXCEPT !.call = NewestFirst(queue)]
    /\ UNCHANGED <<now, strategies, active_strategy_id, accounts, next_account,
                   publishers, llm_enabled, candidates, drafts, draft_cache, queue,
                   audit, sweep>>
    /\ FilesUntouched

\* queue_items, called without a campaign_id
QueueItems(oks) ==
    LET swept == SweepCall(oks) IN
    /\ sweep.pc = "idle"
    /\ UNCHANGED <<now, strategies, active_strategy_id, next_account, publishers,
                   llm_enabled, candidates, drafts, draft_cache, last_refresh_at,
                   cache_file>>
    /\ SweptBy(swept)
    /\ ret' = IF swept.err # ""
              THEN Ret("queue_items", 0, swept.err, "", FALSE)
              ELSE [Ret("queue_items", 0, "", "", TRUE) EXCEPT
                       !.call = NewestFirst(swept.queue)]

\* monitoring_summary; the scan results it counts are not part of the model
MonitoringSummary(oks) ==
    LET swept == SweepCall(oks) IN
    /\ sweep.pc = "idle"
    /\ UNCHANGED <<now, strategies, active_strategy_id, next_account, publishers,
                   llm_enabled, candidates, drafts, draft_cache, last_refresh_at,
                   cache_file>>
    /\ SweptBy(swept)
    /\ ret' = IF swept.err # ""
              THEN Ret("monitoring_summary", 0, swept.err, "", FALSE)
              ELSE Ret("monitoring_summary", 0, "", "", TRUE)

ReadQueueRequests ==
    {<<"github", 1, "auto">>, <<"x", 0, "auto">>, <<"x", 1, "manual">>,
     <<"x", NaiveTime, "auto">>}

ReadListRequests == {<<NoChannel, "", 20, NoScore>>}

NextReads ==
    \/ Tick(MaxTime)
    \/ \E r \in ReadQueueRequests : QueueDraft(1, r[1], "", "", r[2], r[3])
    \/ \E oks \in ConnectorOutcomes : QueueItems(oks)
    \/ \E oks \in ConnectorOutcomes : MonitoringSummary(oks)
    \/ \E r \in ReadListRequests : ListCandidates(r[1], r[2], r[3], r[4], <<>>)

SpecReads == InitQueue /\ [][NextReads]_vars

\* a step that is a whole list_candidates, queue_items or
\* monitoring_summary call
ReadCallStep ==
    \/ \E oks \in ConnectorOutcomes : QueueItems(oks)
    \/ \E oks \in ConnectorOutcomes : MonitoringSummary(oks)
    \/ \E r \in ReadListRequests : ListCandidates(r[1], r[2], r[3], r[4], <<>>)

\* C28: list_candidates, queue_items and monitoring_summary run the sweep
\* before they produce their result: when such a call has returned, no item
\* that was due when it started (status queued, publish_mode auto,
\* scheduled_at <= now) is still queued; each is published or failed.
C28_Step ==
    (ReadCallStep /\ ret'.err = "") =>
        \A i \in DOMAIN queue :
            IsDue(queue[i], now) =>
                /\ queue'[i].status \in {"published", "failed"}
                /\ ret'.op = "queue_items" =>
                      \E k \in DOMAIN ret'.call :
                          /\ ret'.call[k].item_id = i
                          /\ ret'.call[k].status # "queued"

C28_ReadsSweepFirst == [][C28_Step]_vars

\* queue_items has returned two items that its sweep took out of status
\* queued, the newer one first
C28_Witness ==
    /\ ret.op = "queue_items" /\ ret.err = ""
    /\ Len(ret.call) = 2
    /\ Len(audit) = 4
    /\ audit[3].actor = "system:scheduler" /\ audit[4].actor = "system:scheduler"
    /\ ret.call[1].status \in {"published", "failed"}
    /\ ret.call[2].status \in {"published", "failed"}
    /\ ret.call[1].created_at > ret.call[2].created_at

\* ------------------------------------------------- deletion specification
\* The service constructed against a runtime-state file that holds three
\* strategies: "default" and two created ones, the one with the higher id
\* created first.
LoadedStrategies ==
    <<InitStrategies[1],
      [InitStrategies[1] EXCEPT !.id = 2],
      [InitStrategies[1] EXCEPT !.id = 1, !.discovery_mode = "live"]>>

InitDelete ==
    /\ now = 0
    /\ strategies = LoadedStrategies
    /\ active_strategy_id = 0
    /\ accounts = InitAccounts
    /\ next_account = 1
    /\ candidates = SampleCandidates
    /\ drafts = <<>>
    /\ draft_cache = EmptyMap
    /\ queue = <<>>
    /\ audit = <<>>
    /\ sweep = NoSweep
    /\ ret = Ret("init", 0, "", "", TRUE)
    /\ publishers = {}
    /\ llm_enabled = FALSE
    /\ last_refresh_at = 0
    /\ cache_file = <<[refreshed_at |-> 0, items |-> candidates]>>
    /\ state_file = <<RuntimeState>>
    /\ accounts_file = <<>>
    /\ OthersAtRest

DeleteIdInputs == 0..3

NextDelete ==
    \/ \E id \in DeleteIdInputs : DeleteStrategy(id)
    \/ \E id \in DeleteIdInputs : ActivateStrategy(id)
    \/ \E p \in StrategyPayloads, n \in DeleteIdInputs : CreateStrategy(NoStrategy, p, n)

SpecDelete == InitDelete /\ [][NextDelete]_vars

\* C29: when delete_strategy removes the active strategy, the remaining
\* strategy with the lowest id becomes active; when it removes another
\* strategy, the active strategy id stays as it was.
C29_Step ==
    \A id \in DeleteIdInputs :
        (DeleteStrategy(id) /\ ret'.err = "") =>
            IF active_strategy_id = id
            THEN /\ active_strategy_id' \in StrategyIds(strategies')
                 /\ \A other \in StrategyIds(strategies') : active_strategy_id' <= other
            ELSE active_strategy_id' = active_strategy_id

C29_LowestBecomesActive == [][C29_Step]_vars

\* the active strategy "default" was deleted while two others were left,
\* and the one that became active is not the one created first
C29_Witness ==
    /\ ret.op = "delete_strategy" /\ ret.err = "" /\ ret.id = 0
    /\ Len(strategies) = 2
    /\ strategies[1].id # active_strategy_id
    /\ audit = <<AuditEntry("user", "strategy.delete", "ok", 0, "")>>

\* -------------------------------------------------- binding specification
\* The service constructed against a runtime-state file that holds one
\* draft bundle, generated for the channels "github" and "devto"; accounts
\* of both channels are created, disabled, renamed and deleted, and the
\* draft is queued with and without an explicit account_id.
BindingDrafts ==
    <<[draft_id |-> 1, candidate_id |-> 1, campaign_id |-> "",
       variants |-> <<[channel |-> "github", language |-> "pl", account_id |-> "",
                       content |-> <<"Post">>],
                      [channel |-> "devto", language |-> "pl", account_id |-> "",
                       content |-> <<"Post">>]>>]>>

InitBinding ==
    /\ now = 0
    /\ strategies = InitStrategies
    /\ active_strategy_id = 0
    /\ accounts = InitAccounts
    /\ next_account = 1
    /\ candidates = SampleCandidates
    /\ drafts = BindingDrafts
    /\ draft_cache = EmptyMap
    /\ queue = <<>>
    /\ audit = <<>>
    /\ sweep = NoSweep
    /\ ret = Ret("init", 0, "", "", TRUE)
    /\ publishers = {}
    /\ llm_enabled = FALSE
    /\ last_refresh_at = 0
    /\ cache_file = <<[refreshed_at |-> 0, items |-> candidates]>>
    /\ state_file = <<RuntimeState>>
    /\ accounts_file = <<>>
    /\ OthersAtRest

BindingChannels == {"github", "devto"}

BindingAccountIds == {"", "ghost", DefaultAccountName("github"), AccountName("devto", 1)}

BindingCreatePayloads ==
    [enabled : BOOLEAN, is_default : {FALSE}, role : {"primary"},
     supports_account_id : {""}]

BindingUpdatePayloads ==
    {[display_name |-> <<>>, enabled |-> <<FALSE>>, is_default |-> <<>>],
     [display_name |-> <<"Renamed">>, enabled |-> <<>>, is_default |-> <<>>]}

NextBinding ==
    \/ \E p \in BindingCreatePayloads : CreateChannelAccount("devto", p)
    \/ \E c \in BindingChannels, a \in BindingAccountIds \ {""},
          p \in BindingUpdatePayloads : UpdateChannelAccount(c, a, p)
    \/ \E c \in BindingChannels, a \in BindingAccountIds \ {""} :
          DeleteChannelAccount(c, a)
    \/ \E c \in BindingChannels, a \in BindingAccountIds :
          QueueDraft(1, c, "", a, NoTime, "manual")

SpecBinding == InitBinding /\ [][NextBinding]_vars

\* the default account of the active strategy for a channel, when it names
\* an account of the channel; "" otherwise
StrategyDefaultBinding(c) ==
    LET named == ActiveStrategy(strategies, active_strategy_id).default_accounts[c]
    IN IF named # "" /\ named \in AccountIds(accounts[c]) THEN named ELSE ""

\* the first account of a channel among those picked out by Pick, "" when
\* there is none
FirstAccount(c, Pick(_)) ==
    LET picked == {i \in DOMAIN accounts[c] : Pick(accounts[c][i])}
    IN IF picked = {} THEN "" ELSE accounts[c][Min(picked)].account_id

IsMarked(acc) == acc.is_default

IsMarkedAndEnabled(acc) == acc.is_default /\ acc.enabled

IsEnabled(acc) == acc.enabled

\* a successful queue_draft call has bound the account named bound (""
\* for none): the new item carries its id and the display name it has now
BoundTo(c, bound) ==
    LET item == queue'[Len(queue')] IN
    /\ Len(queue') = Len(queue) + 1
    /\ item.account_id = bound
    /\ item.account_display_name =
          IF bound = "" THEN ""
          ELSE GetAccount(accounts[c], bound).display_name

\* the items already in the queue keep the account id and the display name
\* they were queued with
SnapshotsKept ==
    \A i \in DOMAIN queue :
        /\ queue'[i].account_id = queue[i].account_id
        /\ queue'[i].account_display_name = queue[i].account_display_name

\* C30 as claimed: queue_draft binds the account by strict precedence: an
\* explicit account_id, which must exist for the channel, or else the call
\* fails; otherwise the active strategy's default account for the channel
\* if it names an existing account; otherwise the channel's marked default
\* account; otherwise none.  The item snapshots the id and display name.
C30_StrictPrecedence ==
    [][/\ SnapshotsKept
       /\ \A c \in BindingChannels, a \in BindingAccountIds :
             QueueDraft(1, c, "", a, NoTime, "manual") =>
                 IF a # ""
                 THEN IF a \in AccountIds(accounts[c])
                      THEN ret'.err = "" /\ BoundTo(c, a)
                      ELSE ret'.err = "account_not_found" /\ queue' = queue
                 ELSE /\ ret'.err = ""
                      /\ BoundTo(c, IF StrategyDefaultBinding(c) # ""
                                    THEN StrategyDefaultBinding(c)
                                    ELSE FirstAccount(c, IsMarked))]_vars

\* C30 as amended: the third choice is the channel's first account that is
\* marked default and enabled, the fourth the channel's first enabled
\* account, and only with no enabled account the item is bound to none.
C30_Precedence ==
    [][/\ SnapshotsKept
       /\ \A c \in BindingChannels, a \in BindingAccountIds :
             QueueDraft(1, c, "", a, NoTime, "manual") =>
                 IF a # ""
                 THEN IF a \in AccountIds(accounts[c])
                      THEN ret'.err = "" /\ BoundTo(c, a)
                      ELSE ret'.err = "account_not_found" /\ queue' = queue
                 ELSE /\ ret'.err = ""
                      /\ BoundTo(c, IF StrategyDefaultBinding(c) # ""
                                    THEN StrategyDefaultBinding(c)
                                    ELSE IF FirstAccount(c, IsMarkedAndEnabled) # ""
                                    THEN FirstAccount(c, IsMarkedAndEnabled)
                                    ELSE FirstAccount(c, IsEnabled))]_vars

\* an item was bound by the strategy's default, and the account was renamed
\* afterwards: the item still carries the name of the time it was queued
C30_Witness ==
    \E i \in DOMAIN queue :
        /\ queue[i].target_channel = "github"
        /\ queue[i].account_id = DefaultAccountName("github")
        /\ queue[i].account_display_name = "Account default-github"
        /\ GetAccount(accounts["github"], queue[i].account_id).display_name = "Renamed"

\* ------------------------------------------------ selection specification
\* The service constructed against a runtime-state file with two draft
\* bundles whose variants differ in their content: bundle 1 holds for
\* "devto" a supporting variant in front of the primary ones, bundle 2 holds
\* supporting variants only.  The draft is queued for every channel,
\* language and account.
ChoiceVariant(channel, language, account_id, content) ==
    [channel |-> channel, language |-> language, account_id |-> account_id,
     content |-> <<content>>]

ChoiceDrafts ==
    <<[draft_id |-> 1, candidate_id |-> 1, campaign_id |-> "",
       variants |-> <<ChoiceVariant("devto", "pl", AccountName("devto", 1), "S1-pl"),
                      ChoiceVariant("devto", "pl", "", "P-pl"),
                      ChoiceVariant("devto", "en", "", "P-en"),
                      ChoiceVariant("devto", "en", AccountName("devto", 1), "S1-en"),
                      ChoiceVariant("github", "en", "", "G-en")>>],
      [draft_id |-> 2, candidate_id |-> 1, campaign_id |-> "",
       variants |-> <<ChoiceVariant("devto", "en", AccountName("devto", 2), "S2-en"),
                      ChoiceVariant("devto", "en", AccountName("devto", 1), "S1-en")>>]>>

InitChoice ==
    /\ now = 0
    /\ strategies = InitStrategies
    /\ active_strategy_id = 0
    /\ accounts = InitAccounts
    /\ next_account = 1
    /\ candidates = SampleCandidates
    /\ drafts = ChoiceDrafts
    /\ draft_cache = EmptyMap
    /\ queue = <<>>
    /\ audit = <<>>
    /\ sweep = NoSweep
    /\ ret = Ret("init", 0, "", "", TRUE)
    /\ publishers = {}
    /\ llm_enabled = FALSE
    /\ last_refresh_at = 0
    /\ cache_file = <<[refreshed_at |-> 0, items |-> candidates]>>
    /\ state_file = <<RuntimeState>>
    /\ accounts_file = <<>>
    /\ OthersAtRest

ChoiceDraftIds == 1..3

ChoiceChannels == {"devto", "x"}

ChoiceLanguages == {"", "pl", "en", "de"}

ChoiceAccountIds == {"", AccountName("devto", 1), AccountName("devto", 2)}

ChoiceCreatePayloads ==
    {[enabled |-> TRUE, is_default |-> FALSE, role |-> "primary",
      supports_account_id |-> ""]}

NextChoice ==
    \/ \E p \in ChoiceCreatePayloads : CreateChannelAccount("devto", p)
    \/ \E d \in ChoiceDraftIds, c \in ChoiceChannels, l \in ChoiceLanguages,
          a \in ChoiceAccountIds : QueueDraft(d, c, l, a, NoTime, "manual")

SpecChoice == InitChoice /\ [][NextChoice]_vars

\* the positions of a bundle's variants for a channel
OnChannel(bundle, c) == {i \in DOMAIN bundle.variants : bundle.variants[i].channel = c}

\* the positions of a bundle's variants for a channel and a language
InLanguage(bundle, c, l) == {i \in OnChannel(bundle, c) : bundle.variants[i].language = l}

\* the variant taken from a non-empty pool of positions: the first one of
\* the requested account, else the first primary one, else the first one
TakenFrom(bundle, pool, a) ==
    LET of_account == {i \in pool : a # "" /\ bundle.variants[i].account_id = a}
        primary == {i \in pool : bundle.variants[i].account_id = ""}
    IN bundle.variants[IF of_account # {} THEN Min(of_account)
                       ELSE IF primary # {} THEN Min(primary) ELSE Min(pool)]

\* a queue_draft call that found a variant for the channel either fails on
\* the account or appends an item with the content and language of expected
QueuedWith(expected) ==
    \/ ret'.err = "account_not_found" /\ queue' = queue
    \/ /\ ret'.err = ""
       /\ Len(queue') = Len(queue) + 1
       /\ queue'[Len(queue')].payload = expected.content
       /\ queue'[Len(queue')].target_language = expected.language

\* C31 as claimed: queue_draft selects its variant only among the bundle's
\* variants of the target channel and, when a target language is given, of
\* that language; among those the variant of the requested account, else a
\* primary one, else the first; with no variant for the channel it fails
\* with draft_variant_not_found and creates no item.
C31_OnlyRequestedLanguage ==
    [][\A d \in DOMAIN drafts, c \in ChoiceChannels, l \in ChoiceLanguages,
          a \in ChoiceAccountIds :
          QueueDraft(d, c, l, a, NoTime, "manual") =>
              LET pool == IF l = "" THEN OnChannel(drafts[d], c)
                          ELSE InLanguage(drafts[d], c, l)
              IN IF OnChannel(drafts[d], c) = {}
                 THEN ret'.err = "draft_variant_not_found" /\ queue' = queue
                 ELSE pool # {} /\ QueuedWith(TakenFrom(drafts[d], pool, a))]_vars

\* C31 as amended: a target language no variant of the channel has is
\* ignored, and the variant is selected among all variants of the channel.
C31_ChosenVariant ==
    [][\A d \in DOMAIN drafts, c \in ChoiceChannels, l \in ChoiceLanguages,
          a \in ChoiceAccountIds :
          QueueDraft(d, c, l, a, NoTime, "manual") =>
              LET pool == IF l # "" /\ InLanguage(drafts[d], c, l) # {}
                          THEN InLanguage(drafts[d], c, l)
                          ELSE OnChannel(drafts[d], c)
              IN IF pool = {}
                 THEN ret'.err = "draft_variant_not_found" /\ queue' = queue
                 ELSE QueuedWith(TakenFrom(drafts[d], pool, a))]_vars

\* the queue holds an item taken from the primary variant that stands behind
\* a supporting one, and an item taken from the variant of the requested
\* account
C31_Witness ==
    /\ \E i \in DOMAIN queue : queue[i].payload = <<"P-pl">>
    /\ \E i \in DOMAIN queue : queue[i].payload = <<"S1-en">>

\* ------------------------------------------------- fallback specification
\* generate_draft for channel "devto", which has a primary and a supporting
\* account, with an LLM client whose calls may raise, also for requests
\* that name the channel twice: the two jobs of such a channel and
\* language share their key in the dict of resolved texts, and the job that
\* completes last writes the text of both variants.

\* the failed call of a job whose key a job completing later resolved with
\* the text the LLM gave
SupersededFailure(job) == job \o <<"superseded">>

\* the job a failure belongs to
FailedJob(failure) == SubSeq(failure, 1, 4)

\* the failures of a call: those of LlmFailures, and for a job whose key
\* is asked for more than once the failure of one of its calls, completing
\* either after the other calls of the key or before one that succeeds
LlmFailuresRacing(req) ==
    LET jobs == DraftJobs(req)
        repeated == {jobs[i] : i \in {i \in DOMAIN jobs :
                                         \E j \in DOMAIN jobs : j # i /\ jobs[j] = jobs[i]}}
    IN IF ~llm_enabled THEN {<<>>}
       ELSE LlmFailures(req) \cup {<<job>> : job \in repeated}
               \cup {<<SupersededFailure(job)>> : job \in repeated}

FallbackRequests ==
    {[candidate_id |-> 1, channels |-> <<"devto">>, languages |-> <<"pl", "en">>,
      tone |-> NoneValue, campaign_id |-> NoneValue],
     [candidate_id |-> 1, channels |-> <<"devto", "devto">>, languages |-> <<"en">>,
      tone |-> "short", campaign_id |-> NoneValue]}

\* the accounts file holds a primary and a supporting account of "devto"
FallbackAccounts ==
    [InitAccounts EXCEPT !["devto"] =
        <<NewAccount(AccountName("devto", 1), TRUE, TRUE, "primary", ""),
          NewAccount(AccountName("devto", 2), TRUE, FALSE, "supporting",
                     AccountName("devto", 1))>>]

InitFallback ==
    /\ now = 0
    /\ strategies = InitStrategies
    /\ active_strategy_id = 0
    /\ accounts = FallbackAccounts
    /\ next_account = 3
    /\ candidates = SampleCandidates
    /\ drafts = <<>>
    /\ draft_cache = EmptyMap
    /\ queue = <<>>
    /\ audit = <<>>
    /\ sweep = NoSweep
    /\ ret = Ret("init", 0, "", "", TRUE)
    /\ publishers = {}
    /\ llm_enabled \in BOOLEAN
    /\ last_refresh_at = 0
    /\ cache_file = <<[refreshed_at |-> 0, items |-> candidates]>>
    /\ state_file = <<>>
    /\ accounts_file = <<accounts>>
    /\ OthersAtRest

NextFallback ==
    \/ \E req \in FallbackRequests, refresh \in BOOLEAN :
          \E fails \in LlmFailuresRacing(req) : GenerateDraft(req, refresh, fails)

SpecFallback == InitFallback /\ [][NextFallback]_vars

\* the entries of a log that record a fallback
FallbackEntries(log) ==
    {i \in DOMAIN log : log[i].action = "draft.generate.llm" /\ log[i].status = "fallback"}

\* the content of a bundle's first primary variant for a channel and language
PrimaryContentOf(bundle, channel, language) ==
    LET primary == {i \in DOMAIN bundle.variants :
                       /\ bundle.variants[i].channel = channel
                       /\ bundle.variants[i].language = language
                       /\ bundle.variants[i].account_id = ""}
    IN bundle.variants[Min(primary)].content

\* the fallback text of a job of a call that produced bundle
FallbackOf(req, bundle, job) ==
    LET candidate == CandidateOf(candidates, req.candidate_id) IN
    IF job[1] = "primary" THEN FallbackPrimaryContent(candidate, job[3], req.tone)
    ELSE FallbackSupportingContent(SourceRef(accounts[job[2]], candidate), candidate,
                                   PrimaryContentOf(bundle, job[2], job[3]), job[3])

\* a generate_draft call whose LLM calls fail as fails says has answered
\* without an error; when it built a bundle, every variant of a failed job
\* holds the job's fallback text, one fallback entry per failed job was
\* added to the audit log, and the bundle has a primary variant for every
\* requested channel and language
FallbackStep(req, fails) ==
    /\ ret'.err = ""
    /\ drafts' # drafts =>
          LET bundle == drafts'[Len(drafts')] IN
          /\ \A f \in DOMAIN fails, i \in DOMAIN bundle.variants :
                LET job == FailedJob(fails[f])
                    v == bundle.variants[i]
                IN (v.channel = job[2] /\ v.language = job[3] /\ v.account_id = job[4])
                      => v.content = FallbackOf(req, bundle, job)
          /\ Cardinality(FallbackEntries(audit')) =
                Cardinality(FallbackEntries(audit)) + Len(fails)
          /\ \A c \in Range(req.channels), l \in Range(req.languages) :
                \E i \in DOMAIN bundle.variants :
                    /\ bundle.variants[i].channel = c
                    /\ bundle.variants[i].language = l
                    /\ bundle.variants[i].account_id = ""

\* C32: generate_draft never fails because of LLM generation errors: for
\* every job whose LLM call raises, the variant's content is that job's
\* fallback text and one audit entry draft.generate.llm / fallback is
\* recorded, and the bundle still contains a primary variant for every
\* requested channel and language, whichever jobs fail and in whichever
\* order they complete.
C32_FallbackOnLlmFailure ==
    [][\A req \in FallbackRequests, refresh \in BOOLEAN, llm \in LlmAnswers :
          \A fails \in LlmFailuresRacing(req) :
              GenerateDraftAnswered(req, refresh, fails, llm) => FallbackStep(req, fails)]_vars

\* the same for the calls in which no job shares its key with another one
FallbackOnDistinctJobs ==
    [][\A req \in FallbackRequests, refresh \in BOOLEAN, llm \in LlmAnswers :
          \A fails \in LlmFailures(req) :
              GenerateDraftAnswered(req, refresh, fails, llm) => FallbackStep(req, fails)]_vars

\* a bundle was built although the calls of a primary and of a supporting
\* job raised, no job sharing its key with another one
FallbackReached ==
    /\ drafts # <<>>
    /\ Len(drafts[1].variants) = 4
    /\ \E i, j \in FallbackEntries(audit) :
          /\ audit[i].detail = AuditContext(PrimaryJob("devto", "en"))
          /\ audit[j].detail = AuditContext(SupportingJob("devto", "en", AccountName("devto", 2)))

\* -------------------------------------------------- refresh specification
\* The service constructed against a runtime-state file with a hybrid, a
\* live and a stub strategy, the hybrid one without RSS feeds; strategies are
\* activated and the candidates are refreshed by force while each external
\* source returns nothing, returns an item or raises.
RefreshStrategies ==
    <<[InitStrategies[1] @@ [rss_urls |-> <<>>] EXCEPT !.id = 0],
      [InitStrategies[1] @@ [rss_urls |-> <<"feed">>] EXCEPT
          !.id = 1, !.discovery_mode = "live"],
      [InitStrategies[1] @@ [rss_urls |-> <<"feed">>] EXCEPT
          !.id = 2, !.discovery_mode = "stub"]>>

InitRefresh ==
    /\ now = 0
    /\ strategies = RefreshStrategies
    /\ active_strategy_id = 0
    /\ accounts = InitAccounts
    /\ next_account = 1
    /\ candidates = <<>>
    /\ drafts = <<>>
    /\ draft_cache = EmptyMap
    /\ queue = <<>>
    /\ audit = <<>>
    /\ sweep = NoSweep
    /\ ret = Ret("init", 0, "", "", TRUE)
    /\ publishers = {}
    /\ llm_enabled = FALSE
    /\ last_refresh_at = Epoch
    /\ cache_file = <<>>
    /\ state_file = <<RuntimeState>>
    /\ accounts_file = <<>>
    /\ OthersAtRest

\* the item a source returns when it returns one
SourceItem(source) ==
    IF source = "rss" THEN SampleRawItems[3]
    ELSE IF source = "github" THEN SampleRawItems[1]
    ELSE IF source = "hn" THEN SampleRawItems[2]
    ELSE [SampleRawItems[2] EXCEPT !.id = 4, !.source = "arxiv",
                                   !.url.base = <<"https://arxiv.org/abs">>]

SourceOutcomes ==
    {outcome \in [Range(Sources) -> {Raised, "none", "one"}] :
        /\ outcome["rss"] # "none"
        /\ outcome["hn"] # "one"
        /\ outcome["arxiv"] # "one"}

\* what the sources return in an outcome
Answers(outcome) ==
    [s \in Range(Sources) |->
        IF outcome[s] = "one" THEN <<SourceItem(s)>>
        ELSE IF outcome[s] = "none" THEN <<>> ELSE Raised]

RefreshStrategyIds == 0..2

NextRefresh ==
    \/ Tick(MaxTime)
    \/ \E id \in RefreshStrategyIds : ActivateStrategy(id)
    \/ \E outcome \in SourceOutcomes : ForceRefreshFetching(Answers(outcome))

SpecRefresh == InitRefresh /\ [][NextRefresh]_vars

\* a forced refresh with the sources answering as outcome says has
\* completed; in stub mode it asked no source and left the sample set; with
\* no item from the sources asked it left nothing in live mode and the
\* sample set in hybrid mode; otherwise every item a source returned became
\* a candidate
C33_Step ==
    \A outcome \in SourceOutcomes :
        ForceRefreshFetching(Answers(outcome)) =>
            LET strategy == ActiveStrategy(strategies, active_strategy_id)
                mode == strategy.discovery_mode
                asked == IF mode = "stub" THEN {}
                         ELSE IF strategy.rss_urls = <<>> THEN {"github", "hn", "arxiv"}
                         ELSE {"rss", "github", "hn", "arxiv"}
                returned == {s \in asked : outcome[s] = "one"}
            IN /\ ret'.err = ""
               /\ last_refresh_at' = now
               /\ ret'.call.called = asked
               /\ IF mode = "stub" THEN candidates' = SampleCandidates
                  ELSE IF returned = {}
                  THEN candidates' = IF mode = "live" THEN <<>> ELSE SampleCandidates
                  ELSE CandidateIds(candidates') = {SourceItem(s).id : s \in returned}

\* C33: when a non-stub refresh fetches zero live items (also when every
\* source raises), live mode leaves the candidate list empty and hybrid
\* mode replaces it with the synthetic sample set; in stub mode the list is
\* the synthetic sample set and no external source is called; the failure
\* of a single source never aborts the refresh.
C33_RefreshFallback == [][C33_Step]_vars

\* a refresh in live mode in which every source raised emptied a candidate
\* list that held candidates
C33_Witness ==
    /\ ret.op = "force_refresh"
    /\ ActiveStrategy(strategies, active_strategy_id).discovery_mode = "live"
    /\ ret.call.raised = Range(Sources)
    /\ candidates = <<>>
    /\ cache_file # <<>>

\* ------------------------------------------------------------- campaigns
\* self._campaigns is an insertion-ordered dict; the id of the n-th
\* campaign created stands for its uuid.  Every campaign operation ends with
\* _add_audit, which saves the runtime state.
MaxCampaigns == 2

MaxAuditCampaign == 4

CampaignName(n) == "camp-" \o ToString(n)

CampaignIds(camps) == {camps[i].campaign_id : i \in DOMAIN camps}

CampaignPos(camps, campaign_id) == CHOOSE i \in DOMAIN camps : camps[i].campaign_id = campaign_id

UnchangedButCampaigns ==
    /\ UNCHANGED <<now, strategies, active_strategy_id, accounts, next_account,
                   publishers, llm_enabled, candidates, draft_cache, queue, sweep,
                   last_refresh_at, cache_file, accounts_file, scans, scanning,
                   generating, sweeping>>
    /\ state_file' = IF ret'.err = "" THEN <<RuntimeState'>> ELSE state_file

\* campaign_create, for a campaign without linked monitoring results
CampaignCreate ==
    LET campaign_id == CampaignName(Len(campaigns) + 1) IN
    /\ Len(campaigns) < MaxCampaigns
    /\ Len(audit) < MaxAuditCampaign
    /\ campaigns' = Append(campaigns,
          [campaign_id |-> campaign_id, status |-> "draft", draft_ids |-> <<>>,
           queue_ids |-> <<>>, linked_result_ids |-> <<>>,
           created_at |-> now, updated_at |-> now])
    /\ audit' = AddAudit(audit, "user", "campaign.create", "ok", 0, campaign_id)
    /\ ret' = Ret("campaign_create", 0, "", campaign_id, TRUE)
    /\ UNCHANGED drafts
    /\ UnchangedButCampaigns

\* (Faulty variant: the copy stored by campaign_link_draft loses the
\* variants.)
LinkedBundleEmptied(bundle, campaign_id) ==
    [bundle EXCEPT !.campaign_id = campaign_id, !.variants = <<>>]

\* bundle.model_copy(update={"campaign_id": campaign_id})
LinkedBundle(bundle, campaign_id) == [bundle EXCEPT !.campaign_id = campaign_id]

\* campaign_link_draft
CampaignLinkDraft(campaign_id, draft_id) ==
    LET Fail(err) ==
            /\ ret' = [Ret("campaign_link_draft", draft_id, err, "", FALSE)
                          EXCEPT !.call = <<campaign_id, draft_id>>]
            /\ UNCHANGED <<campaigns, drafts, audit>>
    IN
    /\ IF campaign_id \notin CampaignIds(campaigns) THEN Fail("campaign_not_found")
       ELSE IF draft_id \notin DOMAIN drafts THEN Fail("draft_not_found")
       ELSE LET pos == CampaignPos(campaigns, campaign_id)
                linked == campaigns[pos].draft_ids
            IN /\ Len(audit) < MaxAuditCampaign
               /\ drafts' = [drafts EXCEPT ![draft_id] = LinkedBundle(@, campaign_id)]
               /\ campaigns' = [campaigns EXCEPT ![pos] =
                     [@ EXCEPT !.draft_ids = IF draft_id \in Range(linked) THEN linked
                                             ELSE Append(linked, draft_id),
                               !.updated_at = now]]
               /\ audit' = AddAudit(audit, "user", "campaign.link_draft", "ok",
                                    draft_id, campaign_id)
               /\ ret' = [Ret("campaign_link_draft", draft_id, "", "", TRUE)
                             EXCEPT !.call = <<campaign_id, draft_id>>]
    /\ UnchangedButCampaigns

\* campaign_run of a campaign without linked monitoring results: no draft
\* is generated and nothing is queued
CampaignRun(campaign_id) ==
    LET Fail(err) ==
            /\ ret' = Ret("campaign_run", 0, err, campaign_id, FALSE)
            /\ UNCHANGED <<campaigns, audit>>
    IN
    /\ IF campaign_id \notin CampaignIds(campaigns) THEN Fail("campaign_not_found")
       ELSE LET pos == CampaignPos(campaigns, campaign_id) IN
            IF campaigns[pos].status \in {"completed", "failed", "cancelled"}
            THEN Fail("campaign_already_terminal")
            ELSE /\ Len(audit) < MaxAuditCampaign
                 /\ campaigns[pos].linked_result_ids = <<>>
                 /\ campaigns' = [campaigns EXCEPT ![pos] =
                       [@ EXCEPT !.status = "running", !.updated_at = now]]
                 /\ audit' = AddAudit(audit, "user", "campaign.run", "ok", 0, campaign_id)
                 /\ ret' = Ret("campaign_run", 0, "", campaign_id, TRUE)
    /\ UNCHANGED drafts
    /\ UnchangedButCampaigns

\* ------------------------------------------------- campaign specification
\* drafts are generated, queued and published while campaigns are created,
\* run and linked to drafts
CampaignDraftRequests ==
    {[candidate_id |-> 1, channels |-> <<"x">>, languages |-> <<"pl">>,
      tone |-> NoneValue, campaign_id |-> NoneValue],
     [candidate_id |-> 1, channels |-> <<"x">>, languages |-> <<"pl">>,
      tone |-> NoneValue, campaign_id |-> "launch"]}

CampaignIdInputs == {CampaignName(1), CampaignName(2), "ghost"}

CampaignDraftIds == 1..(MaxDrafts + 1)

InitCampaign ==
    /\ InitDraft
    /\ llm_enabled = FALSE

NextCampaign ==
    \/ \E req \in CampaignDraftRequests, refresh \in BOOLEAN : GenerateDraft(req, refresh, <<>>)
    \/ \E d \in CampaignDraftIds : QueueDraft(d, "x", "", "", NoTime, "manual")
    \/ \E i \in QueueItemInputs : PublishQueueItem(i, TRUE, TRUE)
    \/ CampaignCreate
    \/ \E c \in CampaignIdInputs, d \in CampaignDraftIds : CampaignLinkDraft(c, d)
    \/ \E c \in CampaignIdInputs : CampaignRun(c)

SpecCampaign == InitCampaign /\ [][NextCampaign]_vars

\* C34 as claimed: a stored draft bundle is never changed after creation:
\* for every draft id, candidate_id, variants and campaign_id are the same
\* in every later state, whatever operation runs.
C34_BundlesNeverChange ==
    [][\A d \in DOMAIN drafts : d \in DOMAIN drafts' /\ drafts'[d] = drafts[d]]_vars

\* C34 as amended: for every draft id, candidate_id and variants are the
\* same in every later state; campaign_id changes only in a successful
\* campaign_link_draft call for that draft, which sets it to the id of the
\* campaign linked.
C34_BundlesKeepContent ==
    [][\A d \in DOMAIN drafts :
          /\ d \in DOMAIN drafts'
          /\ drafts'[d].draft_id = drafts[d].draft_id
          /\ drafts'[d].candidate_id = drafts[d].candidate_id
          /\ drafts'[d].variants = drafts[d].variants
          /\ drafts'[d].campaign_id # drafts[d].campaign_id =>
                /\ ret'.op = "campaign_link_draft"
                /\ ret'.err = ""
                /\ ret'.call[2] = d
                /\ ret'.call[1] \in CampaignIds(campaigns)
                /\ drafts'[d].campaign_id = ret'.call[1]]_vars

\* a bundle generated without a campaign and queued carries, after
\* campaign_link_draft, the id of the campaign it was linked to
C34_Witness ==
    /\ ret.op = "campaign_link_draft"
    /\ ret.err = ""
    /\ drafts # <<>>
    /\ drafts[1].campaign_id = CampaignName(1)
    /\ drafts[1].variants # <<>>
    /\ campaigns[1].draft_ids = <<1>>
    /\ \E i \in DOMAIN queue : queue[i].draft_id = 1

\* ------------------------------------------------------ monitoring scans
\* monitoring_scan runs in three phases: the idempotency lookup under the
\* lock, the searches outside the lock, the recording under the lock.  A
\* call that is past the lookup stands in scanning until it records.  The
\* scan ids count the calls that went past the lookup; one keyword is
\* active, and a search returns the two results of the stub or raises.
MaxScans == 3

ScanKeywords == <<"kw-1">>

StubResultCount == 2

ScanIds(sc) == {sc.scans[i].scan_id : i \in DOMAIN sc.scans}

\* the response of monitoring_scan for a recorded scan
ScanResponse(sc, scan_id) ==
    [scan |-> sc.scans[CHOOSE i \in DOMAIN sc.scans : sc.scans[i].scan_id = scan_id],
     results |-> SelectSeq(sc.results, LAMBDA r : r.scan_id = scan_id)]

UnchangedButScans ==
    UNCHANGED <<now, strategies, active_strategy_id, accounts, next_account,
                publishers, llm_enabled, candidates, drafts, draft_cache, queue, sweep,
                last_refresh_at, cache_file, accounts_file, campaigns, generating,
                sweeping>>

\* phase 1, the lookup: the request id is mapped to a scan that is stored
IsRecordedRequest(sc, request_id) ==
    /\ request_id # ""
    /\ request_id \in DOMAIN sc.request_id_to_scan
    /\ sc.request_id_to_scan[request_id] \in ScanIds(sc)

\* monitoring_scan, phase 1
ScanBegin(request_id) ==
    IF IsRecordedRequest(scans, request_id)
    THEN /\ ret' = [Ret("monitoring_scan", scans.request_id_to_scan[request_id], "",
                        "cached", TRUE)
                       EXCEPT !.call = ScanResponse(scans,
                                                    scans.request_id_to_scan[request_id])]
         /\ UNCHANGED <<scans, scanning, audit, state_file>>
         /\ UnchangedButScans
    ELSE /\ Len(scans.scans) + Len(scanning) < MaxScans
         /\ scanning' = Append(scanning,
               [request_id |-> request_id,
                scan_id |-> Len(scans.scans) + Len(scanning) + 1,
                scanned_at |-> now])
         /\ UNCHANGED <<scans, audit, ret, state_file>>
         /\ UnchangedButScans

\* monitoring_scan, phases 2 and 3 of the k-th call in flight; the search
\* of the keyword returns or raises
ScanFinish(k, search_ok) ==
    /\ k \in DOMAIN scanning
    /\ LET call == scanning[k]
           results == IF search_ok
                      THEN [n \in 1..StubResultCount |->
                               [result_id |-> <<call.scan_id, n>>,
                                scan_id |-> call.scan_id,
                                keyword_id |-> ScanKeywords[1], position |-> n]]
                      ELSE <<>>
           scan == [scan_id |-> call.scan_id, keywords_scanned |-> ScanKeywords,
                    total_results |-> Len(results), scanned_at |-> call.scanned_at,
                    status |-> IF search_ok THEN "completed" ELSE "partial"]
           logged == AddAudit(audit, "user", "monitoring.scan", "ok", call.scan_id, "")
       IN /\ scans' = [scans |-> Append(scans.scans, scan),
                       results |-> scans.results \o results,
                       request_id_to_scan |->
                           IF call.request_id = "" THEN scans.request_id_to_scan
                           ELSE (call.request_id :> call.scan_id)
                                    @@ scans.request_id_to_scan]
          /\ audit' = IF search_ok THEN logged
                      ELSE AddAudit(logged, "user", "monitoring.scan", "partial",
                                    call.scan_id, ScanKeywords[1])
          /\ ret' = [Ret("monitoring_scan", call.scan_id, "", scan.status, TRUE)
                        EXCEPT !.call = [scan |-> scan, results |-> results]]
    /\ scanning' = SubSeq(scanning, 1, k - 1) \o SubSeq(scanning, k + 1, Len(scanning))
    /\ UnchangedButScans
    /\ state_file' = <<RuntimeState'>>

\* --------------------------------------------------- scan specification
ScanRequestIds == {"", "r1", "r2"}

NextScan ==
    \/ \E r \in ScanRequestIds : ScanBegin(r)
    \/ \E k \in 1..MaxScans, ok \in BOOLEAN : ScanFinish(k, ok)

SpecScan == InitStrategy /\ [][NextScan]_vars

\* a call whose request id is recorded returns the recorded scan with its
\* results and records nothing
C35_LookupStep ==
    \A r \in ScanRequestIds :
        (ScanBegin(r) /\ IsRecordedRequest(scans, r)) =>
            /\ ret'.call = ScanResponse(scans, scans.request_id_to_scan[r])
            /\ scans' = scans
            /\ audit' = audit

\* no call records a scan for a request id for which a scan is recorded
C35_RecordStep ==
    \A k \in DOMAIN scanning, ok \in BOOLEAN :
        (ScanFinish(k, ok) /\ IsRecordedRequest(scans, scanning[k].request_id)) =>
            /\ scans' = scans
            /\ audit' = audit
            /\ ret'.call = ScanResponse(scans,
                                        scans.request_id_to_scan[scanning[k].request_id])

\* C35: for any non-empty request id monitoring_scan records at most one
\* scan: a call whose request id was already used returns the recorded scan
\* with its results and appends no scan, no results and no audit entry,
\* also when two calls with the same request id overlap in time.
C35_OneScanPerRequest == [][C35_LookupStep /\ C35_RecordStep]_vars

\* the same for the calls that do not overlap with a call of the same
\* request id
ScanLookupIdempotent == [][C35_LookupStep]_vars

\* a repeated request id was answered from the recorded scan
ScanAnsweredFromRecord ==
    /\ ret.op = "monitoring_scan"
    /\ ret.status = "cached"
    /\ Len(ret.call.results) = StubResultCount

\* ---------------------------------------------- interleaving specification
\* due items of channel "github" and of channel "x" are published by manual
\* calls, with and without confirmation, while a sweep is between its
\* collection and its publications
InterleavedQueueRequests == {<<"github", 0, "auto">>, <<"x", 0, "auto">>}

NextInterleaved ==
    \/ \E r \in InterleavedQueueRequests : QueueDraft(1, r[1], "", "", r[2], r[3])
    \/ \E i \in QueueItemInputs, confirm \in BOOLEAN, ok \in BOOLEAN :
          /\ ~ok => ConnectorCalled(i, confirm)
          /\ PublishQueueItem(i, confirm, ok)
    \/ SweepCollect
    \/ \E ok \in BOOLEAN :
          /\ sweep.pc = "publishing"
          /\ ~ok => ConnectorCalled(Head(sweep.due), TRUE)
          /\ SweepPublish(ok)

SpecInterleaved == InitQueue /\ [][NextInterleaved]_vars

\* the audit entries of the publish attempts on an item that went past the
\* gates, and those among them that ended with the item published
PublishAttempts(log, i) ==
    {k \in DOMAIN log : log[k].action = "queue.publish" /\ log[k].ref = i}

PublishedOutcomes(log, i) ==
    {k \in PublishAttempts(log, i) : log[k].status \in {"published", "manual"}}

\* no step, of a manual call or of a sweep, attempts a published item: the
\* item stays as it is and no publish entry is written for it
C36_Step ==
    \A i \in DOMAIN queue :
        queue[i].status = "published" =>
            /\ queue'[i] = queue[i]
            /\ PublishAttempts(audit', i) = PublishAttempts(audit, i)

\* C36: for every queue item, across any interleaving of manual
\* publish_queue_item calls and process_scheduled_queue sweeps, at most one
\* publish attempt ends with outcome published, and no connector is invoked
\* for an item that is already published.
C36_PublishedOnce ==
    /\ [](\A i \in DOMAIN queue : Cardinality(PublishedOutcomes(audit, i)) <= 1)
    /\ [][C36_Step]_vars

\* a sweep in flight is about to attempt an item of a connector channel
\* that a manual call has published since the sweep collected it
C36_Witness ==
    /\ sweep.pc = "publishing"
    /\ LET i == Head(sweep.due) IN
       /\ queue[i].status = "published"
       /\ queue[i].target_channel = "github"
       /\ \E k \in PublishedOutcomes(audit, i) : audit[k].actor = "user"

\* ------------------------------------------------------- a second sweep
\* process_scheduled_queue is called by every reading operation and by the
\* scheduler, on whatever thread they run: a second call can collect its
\* due ids while the first one is between its collection and its
\* publications.  sweeping is the state of that second call.
SecondSweepCollect ==
    /\ sweeping.pc = "idle"
    /\ LET due == DueItemIds(now) IN
       IF DueCheckRaises
       THEN /\ ret' = Ret("process_scheduled_queue", 0, "TypeError", "", FALSE)
            /\ UNCHANGED sweeping
       ELSE IF due = <<>>
       THEN /\ sweeping' = [pc |-> "idle", due |-> <<>>, processed |-> 0, at |-> now]
            /\ ret' = Ret("process_scheduled_queue", 0, "", "", TRUE)
       ELSE /\ sweeping' = [pc |-> "publishing", due |-> due, processed |-> 0, at |-> now]
            /\ UNCHANGED ret
    /\ UNCHANGED <<now, strategies, active_strategy_id, accounts, next_account,
                   publishers, llm_enabled, candidates, drafts, draft_cache, queue,
                   audit, sweep, last_refresh_at, cache_file, state_file, accounts_file,
                   campaigns, scans, scanning, generating>>

SecondSweepPublish(connector_ok) ==
    /\ sweeping.pc = "publishing"
    /\ LET item_id == Head(sweeping.due)
           call == PublishCall(item_id, TRUE, "system:scheduler", connector_ok)
           processed == ProcessedAfter(sweeping.processed, call.ret)
           rest == RemainingDue(sweeping.due, call.ret)
       IN /\ call.ret.err = "" => Len(audit) < MaxAuditSweep
          /\ queue' = call.queue
          /\ audit' = call.audit
          /\ accounts' = call.accounts
          /\ sweeping' = [sweeping EXCEPT !.due = rest, !.processed = processed,
                                          !.pc = IF rest = <<>> THEN "idle"
                                                 ELSE "publishing"]
          /\ ret' = IF rest = <<>>
                    THEN Ret("process_scheduled_queue", processed, "", "", TRUE)
                    ELSE ret
          /\ UNCHANGED <<now, strategies, active_strategy_id, next_account, publishers,
                         llm_enabled, candidates, drafts, draft_cache, sweep,
                         last_refresh_at, cache_file, campaigns, scans, scanning,
                         generating>>
          /\ state_file' = IF call.ret.err = "" THEN <<RuntimeState'>> ELSE state_file
          /\ accounts_file' = IF call.accounts_saved THEN <<accounts'>> ELSE accounts_file

\* -------------------------------------------- two-sweeps specification
\* due items are queued and swept by two threads, the connector of
\* "github" returning or raising; a client publishes with confirmation
TwoSweepsQueueRequests == {<<"github", 0, "auto">>, <<"x", 0, "auto">>}

NextTwoSweeps ==
    \/ \E r \in TwoSweepsQueueRequests : QueueDraft(1, r[1], "", "", r[2], r[3])
    \/ \E i \in QueueItemInputs : PublishQueueItem(i, TRUE, TRUE)
    \/ SweepCollect
    \/ \E ok \in BOOLEAN :
          /\ sweep.pc = "publishing"
          /\ ~ok => ConnectorCalled(Head(sweep.due), TRUE)
          /\ SweepPublishCapped(ok, MaxAuditSweep)
    \/ SecondSweepCollect
    \/ \E ok \in BOOLEAN :
          /\ sweeping.pc = "publishing"
          /\ ~ok => ConnectorCalled(Head(sweeping.due), TRUE)
          /\ SecondSweepPublish(ok)

SpecTwoSweeps == InitQueue /\ [][NextTwoSweeps]_vars

\* the publish attempts of the scheduler on an item that went past the gates
SchedulerAttempts(log, i) ==
    {k \in PublishAttempts(log, i) : log[k].actor = "system:scheduler"}

\* an item that failed in an attempt of the scheduler leaves the status
\* failed only in a publish attempt of a client
C37_Step ==
    \A i \in DOMAIN queue :
        (/\ queue[i].status = "failed"
         /\ \E k \in SchedulerAttempts(audit, i) : audit[k].status = "failed"
         /\ queue'[i].status # "failed") =>
            /\ Len(audit') = Len(audit) + 1
            /\ audit'[Len(audit')].action = "queue.publish"
            /\ audit'[Len(audit')].ref = i
            /\ audit'[Len(audit')].actor = "user"

\* C37: the scheduler attempts each auto item at most once: a due auto item
\* whose attempt ended in failed is no longer queued, every later sweep
\* skips it, and it stays failed until a manual publish_queue_item call
\* retries it.
C37_AttemptedOnce ==
    /\ [](\A i \in DOMAIN queue : Cardinality(SchedulerAttempts(audit, i)) <= 1)
    /\ [][C37_Step]_vars

\* an item that failed in a sweep was attempted by the scheduler once, was
\* not collected by a later sweep and was published by a client
FailedThenSkipped ==
    \E i \in DOMAIN queue :
        /\ queue[i].status = "published"
        /\ Cardinality(SchedulerAttempts(audit, i)) = 1
        /\ \E k \in SchedulerAttempts(audit, i), m \in PublishAttempts(audit, i) :
              /\ audit[k].status = "failed"
              /\ audit[m].actor = "user"
              /\ k < m

\* a publish_queue_item call for an unknown id, without confirmation or for
\* a published item is rejected and leaves the queue, the audit log, the
\* accounts and both files as they were
C38_Step ==
    \A i \in QueueItemInputs, confirm \in BOOLEAN, ok \in BOOLEAN :
        (/\ PublishQueueItem(i, confirm, ok)
         /\ \/ i \notin DOMAIN queue
            \/ ~confirm
            \/ queue[i].status = "published") =>
            /\ ret'.op = "publish_queue_item"
            /\ ret'.err = IF i \notin DOMAIN queue THEN "queue_item_not_found"
                          ELSE IF ~confirm THEN "confirm_publish_required"
                          ELSE "queue_item_already_published"
            /\ queue' = queue
            /\ audit' = audit
            /\ accounts' = accounts
            /\ state_file' = state_file
            /\ accounts_file' = accounts_file

\* C38: a publish_queue_item call that is rejected at a gate (unknown item
\* id, confirm_publish false, item already published) changes nothing: no
\* item's status or updated_at, no audit entry, no account's publish
\* counters or last-publish snapshot.
C38_RejectedChangesNothing == [][C38_Step]_vars

\* a call for an item that a connector had published was rejected, the
\* account of the item still counting one publication
C38_Witness ==
    /\ ret.op = "publish_queue_item"
    /\ ret.err = "queue_item_already_published"
    /\ queue[ret.id].target_channel = "github"
    /\ GetAccount(accounts["github"], queue[ret.id].account_id).successful_publishes = 1
    /\ Cardinality(PublishAttempts(audit, ret.id)) = 1

\* ------------------------------------------------- generate_draft, split
\* generate_draft takes no lock: between its cache lookup and the moment it
\* stores its bundle, other calls run.  A call that is past the lookup
\* stands in generating until it stores.
UnchangedButDrafts ==
    UNCHANGED <<now, strategies, active_strategy_id, accounts, next_account,
                publishers, llm_enabled, candidates, queue, sweep, last_refresh_at,
                cache_file, accounts_file, campaigns, scans, scanning, sweeping>>

\* generate_draft up to the end of its cache lookup
GenerateBegin(req, refresh) ==
    LET key == DraftCacheKey(req)
        cached == GetCachedDraft(draft_cache, drafts, key, now)
        Answer(id) == [Ret("generate_draft", id, "", "", TRUE)
                          EXCEPT !.call = <<req, refresh, now>>]
    IN
    /\ IF req.candidate_id \notin CandidateIds(candidates)
       THEN /\ ret' = [Ret("generate_draft", NoDraft, "candidate_not_found", "", FALSE)
                          EXCEPT !.call = <<req, refresh, now>>]
            /\ UNCHANGED <<draft_cache, audit, generating, state_file>>
       ELSE IF ~refresh /\ cached.draft_id # NoDraft
       THEN /\ Len(audit) < MaxAuditDraft
            /\ audit' = AddAudit(audit, "user", "draft.generate", "cached",
                                 cached.draft_id, "")
            /\ ret' = Answer(cached.draft_id)
            /\ UNCHANGED <<draft_cache, generating, drafts>>
            /\ UnchangedButDrafts
            /\ state_file' = <<RuntimeState'>>
       ELSE /\ Len(drafts) + Len(generating) < MaxDrafts
            /\ draft_cache' = IF refresh THEN draft_cache ELSE cached.cache
            /\ generating' = Append(generating,
                                    [req |-> req, refresh |-> refresh, at |-> now])
            /\ UNCHANGED <<audit, ret, state_file>>
    /\ UNCHANGED drafts
    /\ UnchangedButDrafts

\* generate_draft from the end of its cache lookup, for the k-th call in
\* flight, with the LLM client disabled
GenerateFinish(k) ==
    /\ k \in DOMAIN generating
    /\ ~llm_enabled
    /\ LET call == generating[k]
           llm == CHOOSE a \in LlmAnswers : TRUE
           key == DraftCacheKey(call.req)
           draft_id == Len(drafts) + 1
           bundle == [draft_id |-> draft_id,
                      candidate_id |-> call.req.candidate_id,
                      campaign_id |-> key.campaign_id,
                      variants |-> PrimaryVariants(call.req, <<>>, llm)
                                      \o SupportingVariants(call.req, <<>>, llm)]
           bundles == Append(drafts, bundle)
       IN /\ Len(audit) < MaxAuditDraft
          /\ drafts' = bundles
          /\ draft_cache' = CleanupDraftCache(CacheWith(draft_cache, key, draft_id, now),
                                              bundles, now)
          /\ audit' = AddAudit(audit, "user", "draft.generate", "ok", draft_id,
                               key.campaign_id)
          /\ ret' = [Ret("generate_draft", draft_id, "", "", TRUE)
                        EXCEPT !.call = <<call.req, call.refresh, call.at>>]
    /\ generating' = SubSeq(generating, 1, k - 1) \o SubSeq(generating, k + 1, Len(generating))
    /\ UnchangedButDrafts
    /\ state_file' = <<RuntimeState'>>

\* ----------------------------------------------- generation specification
GenerateRequests ==
    {[candidate_id |-> 1, channels |-> <<"x">>, languages |-> <<"pl">>,
      tone |-> NoneValue, campaign_id |-> NoneValue],
     [candidate_id |-> 1, channels |-> <<"x", "github">>, languages |-> <<"pl">>,
      tone |-> NoneValue, campaign_id |-> NoneValue],
     [candidate_id |-> 4, channels |-> <<"x">>, languages |-> <<"pl">>,
      tone |-> NoneValue, campaign_id |-> NoneValue]}

NextGenerate ==
    \/ Tick(MaxDraftTime)
    \/ \E req \in GenerateRequests, refresh \in BOOLEAN : GenerateBegin(req, refresh)
    \/ \E k \in 1..MaxDrafts : GenerateFinish(k)

SpecGenerate == InitCampaign /\ [][NextGenerate]_vars

\* a call without refresh that stores its bundle finds no live cache entry
\* for its key: a call of the same key that overlapped with it and stored
\* first would have left one
C39_Step ==
    \A k \in DOMAIN generating :
        (GenerateFinish(k) /\ ~generating[k].refresh) =>
            GetCachedDraft(draft_cache, drafts, DraftCacheKey(generating[k].req),
                           now).draft_id = NoDraft

\* C39: two generate_draft invocations with identical candidate_id,
\* channels, languages, tone and campaign_id that overlap in time return
\* the same draft_id and create at most one bundle and one draft-cache
\* entry for that key.
C39_OneBundlePerKey == [][C39_Step]_vars

\* calls of the same key that do not overlap: the second one is answered
\* from the cache with the draft id of the first and stores nothing
GenerateCachedStep ==
    \A req \in GenerateRequests :
        (/\ GenerateBegin(req, FALSE)
         /\ GetCachedDraft(draft_cache, drafts, DraftCacheKey(req), now).draft_id # NoDraft) =>
            /\ ret'.id = draft_cache[DraftCacheKey(req)].draft_id
            /\ drafts' = drafts
            /\ draft_cache' = draft_cache
            /\ generating' = generating

GenerateCachedWhenSequential == [][GenerateCachedStep]_vars

GenerateAnsweredFromCache ==
    /\ ret.op = "generate_draft"
    /\ Len(drafts) = 1
    /\ Len(audit) = 2
    /\ audit[2].status = "cached"

\* ---------------------------------------------------------------------
\* Accounts bound by queue_draft without an explicit account_id
\* ---------------------------------------------------------------------

\* the account the item queued by this step carries is "" or an enabled
\* account of the channel
BoundAccountEnabled(c) ==
    LET item == queue'[Len(queue')] IN
    /\ Len(queue') = Len(queue) + 1
    /\ \/ item.account_id = ""
       \/ /\ item.account_id \in AccountIds(accounts[c])
          /\ GetAccount(accounts[c], item.account_id).enabled

\* C40: when queue_draft is called without an explicit account_id, the
\* account it binds through the fallback chain (the active strategy's
\* default account, then the channel default) is always an enabled account,
\* after any sequence of account updates and deletions.
C40_BoundAccountEnabled ==
    [][\A c \in BindingChannels :
          QueueDraft(1, c, "", "", NoTime, "manual") =>
              ret'.err = "" /\ BoundAccountEnabled(c)]_vars

\* the part of the chain that does look at the enabled flag: when the active
\* strategy names no existing account of the channel, the bound account is
\* enabled or there is none
ChannelDefaultEnabled ==
    [][\A c \in BindingChannels :
          QueueDraft(1, c, "", "", NoTime, "manual") /\ StrategyDefaultBinding(c) = "" =>
              ret'.err = "" /\ BoundAccountEnabled(c)]_vars

\* an item is bound to the strategy's default account of github while that
\* account is disabled
DisabledAccountBound ==
    \E i \in DOMAIN queue :
        /\ queue[i].target_channel = "github"
        /\ queue[i].account_id = DefaultAccountName("github")
        /\ DefaultAccountName("github") \in AccountIds(accounts["github"])
        /\ ~GetAccount(accounts["github"], DefaultAccountName("github")).enabled

====
